---- MODULE Spec2Model ----
(***************************************************************************)
(* A model of the medication-adherence application: the external store     *)
(* (tables medications and dose_logs), the clock, and the page components  *)
(* Dashboard, Analytics, Calendar, DoseLogging and AddMedication with      *)
(* their handlers.  The user is signed in throughout.                      *)
(*                                                                         *)
(* Instants are whole seconds of local time since 1970-01-01T00:00 local   *)
(* (a Date's getTime() shifted by a fixed zone offset, milliseconds        *)
(* dropped); the zone has no daylight-saving shifts, so a calendar day is  *)
(* 24 hours.  A timestamp string of the store stands for the instant that  *)
(* new Date(string) parses it to.                                          *)
(***************************************************************************)
EXTENDS Integers, Sequences, FiniteSets, TLC

VARIABLES
    medicationsTable,   \* store: rows of table medications of the user, in the order select('*') returns them
    doseLogsTable,      \* store: rows of table dose_logs of the user
    clock,              \* the instant new Date() returns
    page,               \* the mounted page: "none", "dashboard", "analytics", "calendar", "logging",
                        \* "addMedication", "medications"
    dFetch,             \* Dashboard.fetchData: "idle", "awaitMeds", "awaitLogs", "done", "failed"
    dMedications,       \* Dashboard state medications
    dNow,               \* Dashboard.fetchData local const now
    upcomingDoses,      \* Dashboard state upcomingDoses
    recentLogs,         \* Dashboard state recentLogs
    adherenceStats,     \* Dashboard state adherenceStats
    dIsLoading,         \* Dashboard state isLoading
    aFetch,             \* Analytics.fetchData: "idle", "awaitMeds", "awaitLogs", "done", "failed"
    aMedications,       \* Analytics state medications
    aLogs,              \* Analytics state logs
    weeklyData,         \* Analytics state weeklyData
    weeklyFor,          \* the currentWeekStart that the last calculateWeeklyAdherence call read
    mostMissed,         \* Analytics state mostMissed
    aIsLoading,         \* Analytics state isLoading
    currentWeekStart,   \* Analytics state currentWeekStart
    nextDisabled,       \* the disabled attribute of the Next button as last rendered
    toasts,             \* the notices shown so far, oldest first
    cDate,              \* Calendar state date: the selected instant
    cMedications,       \* Calendar state medications
    cLogs,              \* Calendar state logs
    cIsLoading,         \* Calendar state isLoading
    cFetches,           \* Calendar.fetchData calls in flight: [stage, date], date the closure's
    cInserts,           \* Calendar.handleLogDose calls awaiting the insert: [medicationId, logs, data],
                        \* logs the closure's, data the rows returned, none on an error
    lFetch,             \* DoseLogging.fetchData: "idle", "awaitMeds", "awaitLogs", "done", "failed"
    lMedications,       \* DoseLogging state medications
    selectedMedicationId, \* DoseLogging state selectedMedicationId
    lRecentLogs,        \* DoseLogging state recentLogs
    lIsLoading,         \* DoseLogging state isLoading
    lInserts,           \* DoseLogging.handleLogDose calls awaiting the insert: [recentLogs, data]
    fFrequency,         \* AddMedication form value frequency
    fTimes,             \* AddMedication state times
    fTimeInput,         \* AddMedication state timeInput
    fSubmits            \* AddMedication.onSubmit calls awaiting the insert: whether it failed

vars == <<medicationsTable, doseLogsTable, clock, page,
          dFetch, dMedications, dNow, upcomingDoses, recentLogs, adherenceStats, dIsLoading,
          aFetch, aMedications, aLogs, weeklyData, weeklyFor, mostMissed, aIsLoading,
          currentWeekStart, nextDisabled, toasts,
          cDate, cMedications, cLogs, cIsLoading, cFetches, cInserts,
          lFetch, lMedications, selectedMedicationId, lRecentLogs, lIsLoading, lInserts,
          fFrequency, fTimes, fTimeInput, fSubmits>>

storeVars == <<medicationsTable, doseLogsTable>>
dashVars == <<dFetch, dMedications, dNow, upcomingDoses, recentLogs, adherenceStats, dIsLoading>>
analyticsVars == <<aFetch, aMedications, aLogs, weeklyData, weeklyFor, mostMissed, aIsLoading,
                   currentWeekStart, nextDisabled>>
calendarVars == <<cDate, cMedications, cLogs, cIsLoading, cFetches, cInserts>>
loggingVars == <<lFetch, lMedications, selectedMedicationId, lRecentLogs, lIsLoading, lInserts>>
formVars == <<fFrequency, fTimes, fTimeInput, fSubmits>>
entryVars == <<calendarVars, loggingVars, formVars>>

-----------------------------------------------------------------------------
(* Values of JavaScript that are not numbers of the model. *)

\* Number(s) of a string that is no numeral; an Invalid Date's time value.
NaN == -1

\* null / undefined in an optional column (end_date).
Null == -2

-----------------------------------------------------------------------------
(* Sequences. *)

Min2(a, b) == IF a <= b THEN a ELSE b

\* Array.prototype.slice(0, n)
Slice(s, n) == SubSeq(s, 1, Min2(n, Len(s)))

\* Array.prototype.filter for a predicate given as the set of indices it keeps
RECURSIVE KeepIdx(_, _, _)
KeepIdx(s, keep, i) ==
    IF i > Len(s) THEN <<>>
    ELSE IF i \in keep THEN <<s[i]>> \o KeepIdx(s, keep, i + 1)
    ELSE KeepIdx(s, keep, i + 1)

Filter(s, keep) == KeepIdx(s, keep, 1)

\* One insertion step of a stable sort: index i goes behind every index
\* already placed that the comparator does not put after it.  cmp[a, b] is
\* the comparator's result for the elements at indices a and b.
RECURSIVE InsertIdx(_, _, _)
InsertIdx(sorted, i, cmp) ==
    IF sorted = <<>> THEN <<i>>
    ELSE IF cmp[Head(sorted), i] > 0
         THEN <<i>> \o sorted
         ELSE <<Head(sorted)>> \o InsertIdx(Tail(sorted), i, cmp)

RECURSIVE SortIdxUpTo(_, _)
SortIdxUpTo(cmp, n) ==
    IF n = 0 THEN <<>> ELSE InsertIdx(SortIdxUpTo(cmp, n - 1), n, cmp)

\* Array.prototype.sort(compare): stable (ECMAScript 2019)
Sort(s, cmp) ==
    LET idx == SortIdxUpTo(cmp, Len(s))
    IN  [i \in 1..Len(s) |-> s[idx[i]]]

-----------------------------------------------------------------------------
(* Dates: the local calendar fields of a Date. *)

SecondsPerDay == 24 * 60 * 60

\* Days from 1970-01-01 to year y, month m (1..12), day d; d may lie outside
\* the month, as in new Date(y, m, d) and setDate(d).
DaysFromCivil(y, m, d) ==
    LET yy  == IF m <= 2 THEN y - 1 ELSE y
        era == yy \div 400
        yoe == yy - era * 400
        mp  == IF m > 2 THEN m - 3 ELSE m + 9
        doy == (153 * mp + 2) \div 5 + d - 1
        doe == yoe * 365 + yoe \div 4 - yoe \div 100 + doy
    IN  era * 146097 + doe - 719468

\* getFullYear(), getMonth() + 1, getDate() of the day with number z.
CivilFromDays(z) ==
    LET zz  == z + 719468
        era == zz \div 146097
        doe == zz - era * 146097
        yoe == (doe - doe \div 1460 + doe \div 36524 - doe \div 146096) \div 365
        doy == doe - (365 * yoe + yoe \div 4 - yoe \div 100)
        mp  == (5 * doy + 2) \div 153
        d   == doy - (153 * mp + 2) \div 5 + 1
        m   == IF mp < 10 THEN mp + 3 ELSE mp - 9
        y   == yoe + era * 400 + (IF m <= 2 THEN 1 ELSE 0)
    IN  [year |-> y, month |-> m, day |-> d]

DayOf(t) == t \div SecondsPerDay

SecondOfDay(t) == t % SecondsPerDay

\* date-fns startOfDay
StartOfDay(t) == t - SecondOfDay(t)

\* Date.prototype.getDay(): 0 is Sunday
GetDay(t) == (DayOf(t) + 4) % 7

\* The instant of local y-m-d at time of day s seconds
At(y, m, d, s) == DaysFromCivil(y, m, d) * SecondsPerDay + s

\* isSameDay with the first instant of the next day counted in
isWithinDayInclusive(a, b) == StartOfDay(b) <= a /\ a <= StartOfDay(b) + SecondsPerDay

\* date-fns isSameDay
isSameDay(a, b) == DayOf(a) = DayOf(b)

\* date-fns isBefore / isAfter: false when either date is invalid
isBefore(a, b) == a # NaN /\ b # NaN /\ a < b

isAfter(a, b) == a # NaN /\ b # NaN /\ a > b

\* Date.prototype.setDate(getDate() + n)
AddDays(t, n) == IF t = NaN THEN NaN ELSE t + n * SecondsPerDay

\* Date.prototype.setMonth(getMonth() - n): the same day number and time of
\* day n months earlier, a day past the month's end running into the next.
SubMonths(t, n) ==
    LET c  == CivilFromDays(DayOf(t))
        m0 == (c.month - 1) - n
        y  == c.year + m0 \div 12
        m  == (m0 % 12) + 1
    IN  At(y, m, c.day, SecondOfDay(t))

\* Date.prototype.setHours(h, m, 0, 0)
setHours(t, h, m) ==
    IF t = NaN \/ h = NaN \/ m = NaN THEN NaN
    ELSE StartOfDay(t) + h * 3600 + m * 60

-----------------------------------------------------------------------------
(* Time-of-day strings: sequences of characters. *)

Digit == [c \in {"0", "1", "2", "3", "4", "5", "6", "7", "8", "9"} |->
            CASE c = "0" -> 0 [] c = "1" -> 1 [] c = "2" -> 2 [] c = "3" -> 3
              [] c = "4" -> 4 [] c = "5" -> 5 [] c = "6" -> 6 [] c = "7" -> 7
              [] c = "8" -> 8 [] c = "9" -> 9]

\* String.prototype.split(':')
RECURSIVE SplitFrom(_, _, _)
SplitFrom(s, i, cur) ==
    IF i > Len(s) THEN <<cur>>
    ELSE IF s[i] = ":" THEN <<cur>> \o SplitFrom(s, i + 1, <<>>)
    ELSE SplitFrom(s, i + 1, Append(cur, s[i]))

Split(s) == SplitFrom(s, 1, <<>>)

RECURSIVE DecimalValue(_)
DecimalValue(s) ==
    IF s = <<>> THEN 0
    ELSE 10 * DecimalValue(SubSeq(s, 1, Len(s) - 1)) + Digit[s[Len(s)]]

\* Number(s) for strings of digits and letters: the empty string is 0, a
\* string of decimal digits its value, anything else NaN.
Number(s) ==
    IF \A i \in 1..Len(s) : s[i] \in DOMAIN Digit THEN DecimalValue(s) ELSE NaN

\* const [hours, minutes] = timeStr.split(':').map(Number): a missing
\* element is undefined, which setHours converts to NaN
ParseTime(timeStr) ==
    LET parts == Split(timeStr)
    IN  [hours   |-> Number(parts[1]),
         minutes |-> IF Len(parts) >= 2 THEN Number(parts[2]) ELSE NaN]

-----------------------------------------------------------------------------
(* JavaScript objects used as maps, and numbers. *)

\* Whether a property key is an array index: a decimal numeral without
\* leading zeros (below 2^32 - 1, which no key of the model reaches).
IsArrayIndex(k) ==
    /\ k # <<>>
    /\ \A i \in 1..Len(k) : k[i] \in DOMAIN Digit
    /\ (Len(k) > 1 => k[1] # "0")

\* Whether property key a is enumerated before a new key b: array indices
\* come first, in ascending numeric order, then the other keys in the order
\* they were created.
KeyPrecedes(a, b) ==
    IF IsArrayIndex(b)
    THEN IsArrayIndex(a) /\ DecimalValue(a) < DecimalValue(b)
    ELSE TRUE

RECURSIVE InsertKey(_, _, _)
InsertKey(obj, k, v) ==
    IF obj = <<>> THEN <<[key |-> k, value |-> v]>>
    ELSE IF KeyPrecedes(Head(obj).key, k)
         THEN <<Head(obj)>> \o InsertKey(Tail(obj), k, v)
         ELSE <<[key |-> k, value |-> v]>> \o obj

\* obj[k] = v.  An object is the sequence of its own properties in the order
\* Object.entries and Object.values enumerate them.
ObjectSet(obj, k, v) ==
    IF \E i \in 1..Len(obj) : obj[i].key = k
    THEN [i \in 1..Len(obj) |-> IF obj[i].key = k THEN [key |-> k, value |-> v] ELSE obj[i]]
    ELSE InsertKey(obj, k, v)

RECURSIVE GCD(_, _)
GCD(a, b) == IF b = 0 THEN a ELSE GCD(b, a % b)

\* The number n / d (d > 0), as a fraction in lowest terms.
Fraction(n, d) == LET g == GCD(n, d) IN [num |-> n \div g, den |-> d \div g]

\* (taken / total) * 100, the quotient taken exactly
Percentage(taken, total) == Fraction(taken * 100, total)

\* Math.round of a non-negative fraction: the nearest integer, a half going up
MathRound(x) == (2 * x.num + x.den) \div (2 * x.den)

-----------------------------------------------------------------------------
(* Rows fetched from the store. *)

\* medsData.map(...): the medications rows as Medication objects
FormatMeds(rows) == rows

\* A Date three calendar months before t
ThreeMonthsAgo(t) == SubMonths(t, 3)

\* .from('dose_logs').select('*').eq('user_id', user.id).gte('timestamp', since)
SelectLogsSince(rows, since) ==
    Filter(rows, {i \in 1..Len(rows) : rows[i].timestamp >= since})

\* CountOnTime with the flag negated
CountNotOnTime(logs) == Cardinality({i \in 1..Len(logs) : ~logs[i].isOnTime})

\* logs.filter(log => log.isOnTime).length
CountOnTime(logs) == Cardinality({i \in 1..Len(logs) : logs[i].isOnTime})

\* logs.filter(log => log.medicationId === med.id).filter(log => !log.isOnTime).length
MissedCount(logs, med) ==
    Cardinality({i \in 1..Len(logs) : logs[i].medicationId = med.id /\ ~logs[i].isOnTime})

-----------------------------------------------------------------------------
(* Dashboard. *)

UpcomingLimit == 3

DashboardTopN == 3

\* The filter of the upcoming-dose projection
IsUpcoming(med, now) ==
    LET startDate == med.startDate
        endDate   == med.endDate
    IN  (endDate = Null \/ isAfter(endDate, now)) /\ ~isBefore(now, startDate)

\* DueTime with the day added also when the candidate equals now
DueTimeUnlessAfter(timeStr, now, today) ==
    LET t       == ParseTime(timeStr)
        dueTime == setHours(today, t.hours, t.minutes)
    IN  IF ~isAfter(dueTime, now) THEN AddDays(dueTime, 1) ELSE dueTime

\* The due instant of one time-of-day string; today is the new Date() that
\* dueTime starts from.
DueTime(timeStr, now, today) ==
    LET t       == ParseTime(timeStr)
        dueTime == setHours(today, t.hours, t.minutes)
    IN  IF isBefore(dueTime, now) THEN AddDays(dueTime, 1) ELSE dueTime

\* (med.times || []).map(timeStr => ({ medication: med, dueTime }))
DuesOf(med, now, today) ==
    [i \in 1..Len(med.times) |->
        [medication |-> med, dueTime |-> DueTime(med.times[i], now, today)]]

\* .filter(...).flatMap(...)
RECURSIVE FlatMapDues(_, _, _)
FlatMapDues(meds, now, today) ==
    IF meds = <<>> THEN <<>>
    ELSE (IF IsUpcoming(Head(meds), now) THEN DuesOf(Head(meds), now, today) ELSE <<>>)
         \o FlatMapDues(Tail(meds), now, today)

\* (a, b) => a.dueTime.getTime() - b.dueTime.getTime(); with an Invalid
\* Date the difference is NaN, which sort takes as 0
DueCompare(dues) ==
    [a \in 1..Len(dues), b \in 1..Len(dues) |->
        IF dues[a].dueTime = NaN \/ dues[b].dueTime = NaN THEN 0
        ELSE dues[a].dueTime - dues[b].dueTime]

\* Upcoming with the list cut to three before it is sorted
UpcomingSlicedFirst(meds, now, today) ==
    LET dues == Slice(FlatMapDues(meds, now, today), UpcomingLimit)
    IN  Sort(dues, DueCompare(dues))

\* The upcoming doses: sorted by due time, the first three
Upcoming(meds, now, today) ==
    LET dues == FlatMapDues(meds, now, today)
    IN  Slice(Sort(dues, DueCompare(dues)), UpcomingLimit)

\* What the projection may store.  With an Invalid Date among the due
\* instants the comparator is not a consistent one (NaN counts as 0 against
\* every instant), and the order sort leaves is implementation-defined: any
\* order of the entries.
UpcomingOutcomes(meds, now, today) ==
    LET dues == FlatMapDues(meds, now, today)
        n    == Len(dues)
    IN  IF \A i \in 1..n : dues[i].dueTime # NaN
        THEN {Upcoming(meds, now, today)}
        ELSE {Slice([i \in 1..n |-> dues[p[i]]], UpcomingLimit) :
                p \in {q \in [1..n -> 1..n] : \A a, b \in 1..n : a # b => q[a] # q[b]}}

\* The adherence rate of the Dashboard
DashAdherenceRate(logs) ==
    LET totalDoses  == Len(logs)
        takenOnTime == CountOnTime(logs)
    IN  IF totalDoses > 0 THEN Percentage(takenOnTime, totalDoses) ELSE Fraction(0, 1)

\* missedByMed of the Dashboard: keyed by medication name
RECURSIVE DashMissedByMed(_, _, _)
DashMissedByMed(meds, logs, acc) ==
    IF meds = <<>> THEN acc
    ELSE LET med         == Head(meds)
             missedCount == MissedCount(logs, med)
         IN  DashMissedByMed(Tail(meds), logs,
                 IF missedCount > 0 THEN ObjectSet(acc, med.name, missedCount) ELSE acc)

\* CountCompare with the operands exchanged
CountCompareAscending(items) ==
    [a \in 1..Len(items), b \in 1..Len(items) |-> items[a].count - items[b].count]

\* (a, b) => b.count - a.count
CountCompare(items) ==
    [a \in 1..Len(items), b \in 1..Len(items) |-> items[b].count - items[a].count]

\* sortedMostMissed of the Dashboard
DashMostMissed(meds, logs) ==
    LET obj   == DashMissedByMed(meds, logs, <<>>)
        items == [i \in 1..Len(obj) |-> [medication |-> obj[i].key, count |-> obj[i].value]]
    IN  Slice(Sort(items, CountCompare(items)), DashboardTopN)

\* The AdherenceStat object the Dashboard stores
DashStats(meds, logs) ==
    LET totalDoses  == Len(logs)
        takenOnTime == CountOnTime(logs)
    IN  [adherenceRate |-> DashAdherenceRate(logs),
         totalDoses    |-> totalDoses,
         takenDoses    |-> takenOnTime,
         missedDoses   |-> totalDoses - takenOnTime,
         mostMissed    |-> DashMostMissed(meds, logs)]

\* useState initial value of adherenceStats
InitialStats ==
    [adherenceRate |-> Fraction(0, 1), totalDoses |-> 0, takenDoses |-> 0,
     missedDoses |-> 0, mostMissed |-> <<>>]

\* The seconds that may pass between reading now and the new Date() of a dueTime
ClockSkews == {0, 1}

\* The route /dashboard is opened: the component mounts with its initial
\* state and its effect calls fetchData, which awaits the medications.
OpenDashboard ==
    /\ page = "none"
    /\ page' = "dashboard"
    /\ dFetch' = "awaitMeds"
    /\ UNCHANGED <<storeVars, entryVars, clock, dMedications, dNow, upcomingDoses, recentLogs,
                   adherenceStats, dIsLoading, analyticsVars, toasts>>

\* fetchData resumes after the medications query: on an error the catch
\* block shows the notice and finally clears isLoading; otherwise the
\* medications are stored, the upcoming doses computed, and the logs awaited.
DashMedsResult ==
    /\ page = "dashboard"
    /\ dFetch = "awaitMeds"
    /\ \E medsError \in BOOLEAN :
         IF medsError
         THEN /\ toasts' = Append(toasts, "Failed to fetch dashboard data")
              /\ dIsLoading' = FALSE
              /\ dFetch' = "failed"
              /\ UNCHANGED <<dMedications, dNow, upcomingDoses>>
         ELSE \E skew \in ClockSkews :
              LET formattedMeds == FormatMeds(medicationsTable)
              IN  /\ dMedications' = formattedMeds
                  /\ dNow' = clock
                  /\ upcomingDoses' \in UpcomingOutcomes(formattedMeds, clock, clock + skew)
                  /\ dFetch' = "awaitLogs"
                  /\ UNCHANGED <<toasts, dIsLoading>>
    /\ UNCHANGED <<storeVars, entryVars, clock, page, recentLogs, adherenceStats, analyticsVars>>

\* fetchData resumes after the dose-log query.
DashLogsResult ==
    /\ page = "dashboard"
    /\ dFetch = "awaitLogs"
    /\ \E logsError \in BOOLEAN :
         IF logsError
         THEN /\ toasts' = Append(toasts, "Failed to fetch dashboard data")
              /\ dFetch' = "failed"
              /\ UNCHANGED <<recentLogs, adherenceStats>>
         ELSE LET formattedLogs == SelectLogsSince(doseLogsTable, ThreeMonthsAgo(clock))
              IN  /\ recentLogs' = formattedLogs
                  /\ adherenceStats' = DashStats(dMedications, formattedLogs)
                  /\ dFetch' = "done"
                  /\ UNCHANGED toasts
    /\ dIsLoading' = FALSE
    /\ UNCHANGED <<storeVars, entryVars, clock, page, dMedications, dNow, upcomingDoses, analyticsVars>>

-----------------------------------------------------------------------------
(* Analytics. *)

AnalyticsTopN == 5

\* startOfWeek giving the Sunday after the week of t
startOfFollowingWeek(t) == AddDays(StartOfDay(t), 7 - GetDay(t))

\* date-fns startOfWeek(t, { weekStartsOn: 0 }): the Sunday, at 00:00
startOfWeek(t) == AddDays(StartOfDay(t), 0 - GetDay(t))

\* date-fns endOfWeek(t, { weekStartsOn: 0 }): the Saturday, at its last instant
endOfWeek(t) == AddDays(startOfWeek(t), 6) + (SecondsPerDay - 1)

\* date-fns addWeeks / subWeeks
addWeeks(t, n) == AddDays(t, 7 * n)

subWeeks(t, n) == AddDays(t, 0 - 7 * n)

\* date-fns eachDayOfInterval({ start, end }): the start of every day from
\* start's day on that is not after end
RECURSIVE DaysFrom(_, _)
DaysFrom(day, end) ==
    IF day > end THEN <<>> ELSE <<day>> \o DaysFrom(AddDays(day, 1), end)

\* eachDayOfInterval without the day that end lies on
eachDayBeforeEnd(start, end) == DaysFrom(StartOfDay(start), StartOfDay(end) - 1)

eachDayOfInterval(start, end) == DaysFrom(StartOfDay(start), end)

MonthAbbreviation ==
    <<"Jan", "Feb", "Mar", "Apr", "May", "Jun", "Jul", "Aug", "Sep", "Oct", "Nov", "Dec">>

\* date-fns format(day, "MMM d"): the month's abbreviation and the day of the month
FormatMMMd(t) ==
    LET c == CivilFromDays(DayOf(t)) IN <<MonthAbbreviation[c.month], c.day>>

\* One element of weeklyAdherenceData
DayAdherence(logs, day) ==
    LET dayLogs       == Filter(logs, {i \in 1..Len(logs) : isSameDay(logs[i].timestamp, day)})
        takenCount    == CountOnTime(dayLogs)
        totalCount    == Len(dayLogs)
        adherenceRate == IF totalCount > 0 THEN Percentage(takenCount, totalCount)
                         ELSE Fraction(0, 1)
    IN  [date          |-> FormatMMMd(day),
         adherenceRate |-> MathRound(adherenceRate),
         total         |-> totalCount,
         taken         |-> takenCount]

\* calculateWeeklyAdherence, for the currentWeekStart its closure reads
WeeklyAdherence(logs, weekStart) ==
    LET weekEnd    == endOfWeek(weekStart)
        daysInWeek == eachDayOfInterval(weekStart, weekEnd)
    IN  [i \in 1..Len(daysInWeek) |-> DayAdherence(logs, daysInWeek[i])]

\* missedByMed of Analytics: keyed by medication id
RECURSIVE AnMissedByMed(_, _, _)
AnMissedByMed(meds, logs, acc) ==
    IF meds = <<>> THEN acc
    ELSE LET med         == Head(meds)
             missedCount == MissedCount(logs, med)
         IN  AnMissedByMed(Tail(meds), logs,
                 IF missedCount > 0
                 THEN ObjectSet(acc, med.id, [name |-> med.name, count |-> missedCount])
                 ELSE acc)

\* calculateMostMissed
MostMissed(logs, meds) ==
    LET obj   == AnMissedByMed(meds, logs, <<>>)
        items == [i \in 1..Len(obj) |->
                    [medication |-> obj[i].value.name, count |-> obj[i].value.count]]
    IN  Slice(Sort(items, CountCompare(items)), AnalyticsTopN)

\* calculateOverallAdherence
calculateOverallAdherence(logs) ==
    IF Len(logs) = 0 THEN 0
    ELSE MathRound(Percentage(CountOnTime(logs), Len(logs)))

\* The disabled attribute of the Next button
NextDisabled(weekStart, now) == endOfWeek(addWeeks(weekStart, 1)) > now

\* The Previous and Next buttons are rendered
WeekButtonsShown == page = "analytics" /\ ~aIsLoading /\ Len(aLogs) # 0

\* The route /analytics is opened: the component mounts, currentWeekStart
\* is initialised, and the effect calls fetchData, which awaits the medications.
OpenAnalytics ==
    /\ page = "none"
    /\ page' = "analytics"
    /\ currentWeekStart' = startOfWeek(clock)
    /\ aIsLoading' = TRUE
    /\ aFetch' = "awaitMeds"
    /\ UNCHANGED <<storeVars, entryVars, clock, dashVars, aMedications, aLogs, weeklyData, weeklyFor,
                   mostMissed, nextDisabled, toasts>>

\* fetchData resumes after the medications query.
AnalyticsMedsResult ==
    /\ page = "analytics"
    /\ aFetch = "awaitMeds"
    /\ \E medsError \in BOOLEAN :
         IF medsError
         THEN /\ toasts' = Append(toasts, "Failed to fetch analytics data")
              /\ aIsLoading' = FALSE
              /\ aFetch' = "failed"
              /\ nextDisabled' = NextDisabled(currentWeekStart, clock)
              /\ UNCHANGED aMedications
         ELSE /\ aMedications' = FormatMeds(medicationsTable)
              /\ aFetch' = "awaitLogs"
              /\ UNCHANGED <<toasts, aIsLoading, nextDisabled>>
    /\ UNCHANGED <<storeVars, entryVars, clock, page, dashVars, aLogs, weeklyData, weeklyFor, mostMissed,
                   currentWeekStart>>

\* fetchData resumes after the dose-log query.  No week navigation happens
\* while fetchData runs (the buttons are not rendered while isLoading), so
\* the currentWeekStart of its closure is the state's.
AnalyticsLogsResult ==
    /\ page = "analytics"
    /\ aFetch = "awaitLogs"
    /\ \E logsError \in BOOLEAN :
         IF logsError
         THEN /\ toasts' = Append(toasts, "Failed to fetch analytics data")
              /\ aFetch' = "failed"
              /\ UNCHANGED <<aLogs, weeklyData, weeklyFor, mostMissed>>
         ELSE LET formattedLogs == SelectLogsSince(doseLogsTable, ThreeMonthsAgo(clock))
              IN  /\ aLogs' = formattedLogs
                  /\ weeklyData' = WeeklyAdherence(formattedLogs, currentWeekStart)
                  /\ weeklyFor' = currentWeekStart
                  /\ mostMissed' = MostMissed(formattedLogs, aMedications)
                  /\ aFetch' = "done"
                  /\ UNCHANGED toasts
    /\ aIsLoading' = FALSE
    /\ nextDisabled' = NextDisabled(currentWeekStart, clock)
    /\ UNCHANGED <<storeVars, entryVars, clock, page, dashVars, aMedications, currentWeekStart>>

\* The effect on [currentWeekStart], run with the new week start ws
WeekChanged(ws) ==
    IF Len(aLogs) > 0 /\ Len(aMedications) > 0
    THEN /\ weeklyData' = WeeklyAdherence(aLogs, ws)
         /\ weeklyFor' = ws
    ELSE UNCHANGED <<weeklyData, weeklyFor>>

\* How many weeks the window may be moved back from the current week
MaxWeeksBack == 2

\* navigatePreviousWeek, from a click on Previous
NavigatePreviousWeek ==
    /\ WeekButtonsShown
    /\ subWeeks(startOfWeek(clock), MaxWeeksBack) < currentWeekStart
    /\ currentWeekStart' = subWeeks(currentWeekStart, 1)
    /\ WeekChanged(currentWeekStart')
    /\ nextDisabled' = NextDisabled(currentWeekStart', clock)
    /\ UNCHANGED <<storeVars, entryVars, clock, page, dashVars, aFetch, aMedications, aLogs, mostMissed,
                   aIsLoading, toasts>>

\* navigateNextWeek, from a click on Next, which the button takes only
\* when it is not disabled
NavigateNextWeek ==
    /\ WeekButtonsShown
    /\ ~nextDisabled
    /\ LET nextWeek == addWeeks(currentWeekStart, 1)
       IN  IF nextWeek <= startOfWeek(clock)
           THEN /\ currentWeekStart' = nextWeek
                /\ WeekChanged(nextWeek)
                /\ nextDisabled' = NextDisabled(nextWeek, clock)
           ELSE UNCHANGED <<currentWeekStart, weeklyData, weeklyFor, nextDisabled>>
    /\ UNCHANGED <<storeVars, entryVars, clock, page, dashVars, aFetch, aMedications, aLogs, mostMissed,
                   aIsLoading, toasts>>

-----------------------------------------------------------------------------
(* Inputs. *)

Chars == <<"1", "2", "3", "4", "5", "6", "7", "8", "9">>

Letters == <<"A", "B", "C", "D", "E", "F", "G", "H", "I">>

\* The decimal numeral of n >= 1
RECURSIVE Numeral(_)
Numeral(n) ==
    IF n < 10 THEN <<Chars[n]>>
    ELSE Numeral(n \div 10) \o (IF n % 10 = 0 THEN <<"0">> ELSE <<Chars[n % 10]>>)

\* The id of the i-th medication row: like a UUID, never an array index
IdOf(i) == <<"m", "-", Chars[i]>>

\* The name of the i-th medication row unless the input says otherwise
NameOf(i) == <<"R", "x", Letters[i]>>

T0730 == <<"0", "7", ":", "3", "0">>
T0800 == <<"0", "8", ":", "0", "0">>
T2000 == <<"2", "0", ":", "0", "0">>

\* Seconds into the day of h:m:s
Clock(h, m, sec) == h * 3600 + m * 60 + sec

\* The state of the page components before any is mounted: the initial
\* values of their useState calls
Unmounted ==
    /\ page = "none"
    /\ dFetch = "idle"
    /\ dMedications = <<>>
    /\ dNow = Null
    /\ upcomingDoses = <<>>
    /\ recentLogs = <<>>
    /\ adherenceStats = InitialStats
    /\ dIsLoading = TRUE
    /\ aFetch = "idle"
    /\ aMedications = <<>>
    /\ aLogs = <<>>
    /\ weeklyData = <<>>
    /\ weeklyFor = Null
    /\ mostMissed = <<>>
    /\ aIsLoading = TRUE
    /\ currentWeekStart = Null
    /\ nextDisabled = TRUE
    /\ toasts = <<>>
    /\ cDate = Null
    /\ cMedications = <<>>
    /\ cLogs = <<>>
    /\ cIsLoading = TRUE
    /\ cFetches = <<>>
    /\ cInserts = <<>>
    /\ lFetch = "idle"
    /\ lMedications = <<>>
    /\ selectedMedicationId = <<>>
    /\ lRecentLogs = <<>>
    /\ lIsLoading = TRUE
    /\ lInserts = <<>>
    /\ fFrequency = "once_daily"
    /\ fTimes = <<>>
    /\ fTimeInput = <<>>
    /\ fSubmits = <<>>

\* Medication rows from per-row choices: f[i] gives the fields that vary
MedRows(n, f) ==
    [i \in 1..n |-> [id |-> IdOf(i), name |-> f[i].name, times |-> f[i].times,
                     startDate |-> f[i].startDate, endDate |-> f[i].endDate]]

-----------------------------------------------------------------------------
(* The notices and the rows written to dose_logs. *)

\* toast.error / toast.info / toast.success
Notify(message) == toasts' = Append(toasts, message)

\* How many notices the model lets a mounted page come to, those that the
\* calls in flight may still raise counted in
MaxNotices == 2

NoticeRoom ==
    Len(toasts) + Len(cFetches) + Len(cInserts) + Len(lInserts) + Len(fSubmits) < MaxNotices

\* How many rows of dose_logs the model lets the store hold
MaxStoredLogs == 3

\* A sequence without its i-th element
RemoveAt(s, i) == SubSeq(s, 1, i - 1) \o SubSeq(s, i + 1, Len(s))

\* The row that insert([{ medication_id, timestamp: new Date().toISOString(),
\* is_on_time: true, user_id }]).select() stores and returns; the id is the
\* store's default.  CalendarDoseLog and LoggingDoseLog are the two call sites.
CalendarDoseLogMissed(medicationId, now) ==
    [id |-> <<"l", "-">> \o Numeral(Len(doseLogsTable) + 1), medicationId |-> medicationId,
     timestamp |-> now, isOnTime |-> FALSE]

CalendarDoseLog(medicationId, now) ==
    [id |-> <<"l", "-">> \o Numeral(Len(doseLogsTable) + 1), medicationId |-> medicationId,
     timestamp |-> now, isOnTime |-> TRUE]

LoggingDoseLog(medicationId, now) ==
    [id |-> <<"l", "-">> \o Numeral(Len(doseLogsTable) + 1), medicationId |-> medicationId,
     timestamp |-> now, isOnTime |-> TRUE]

-----------------------------------------------------------------------------
(* Calendar. *)

\* Date.prototype.getMonth() + 1
GetMonth(t) == CivilFromDays(DayOf(t)).month

\* new Date(date.getFullYear(), date.getMonth(), 1)
MonthStart(date) ==
    LET c == CivilFromDays(DayOf(date)) IN At(c.year, c.month, 1, 0)

\* new Date(date.getFullYear(), date.getMonth() + 1, 0)
MonthEnd(date) ==
    LET c == CivilFromDays(DayOf(date)) IN At(c.year, c.month + 1, 0, 0)

\* .from('dose_logs').select('*').eq('user_id', user.id).gte('timestamp', from).lte('timestamp', to)
SelectLogsBetween(rows, from, to) ==
    Filter(rows, {i \in 1..Len(rows) : rows[i].timestamp >= from /\ rows[i].timestamp <= to})

\* getScheduledMedications with the end date left out of the test
getStartedMedications(medications, date) ==
    Filter(medications, {i \in 1..Len(medications) : medications[i].startDate <= date})

\* getScheduledMedications
getScheduledMedications(medications, date) ==
    Filter(medications,
           {i \in 1..Len(medications) :
              LET startDate == medications[i].startDate
                  endDate   == medications[i].endDate
              IN  startDate <= date /\ (endDate = Null \/ endDate >= date)})

\* getLogsForDate keeping the logs of the 24 hours up to the selected instant
getLogsOfLastDay(logs, date) ==
    Filter(logs, {i \in 1..Len(logs) :
                    date - SecondsPerDay < logs[i].timestamp /\ logs[i].timestamp <= date})

\* getLogsForDate
getLogsForDate(logs, date) ==
    Filter(logs, {i \in 1..Len(logs) : isSameDay(logs[i].timestamp, date)})

\* isMedicationTaken counting only the logs that are on time
isMedicationTakenOnTime(logs, date, medicationId) ==
    LET dayLogs == getLogsForDate(logs, date)
    IN  \E i \in 1..Len(dayLogs) : dayLogs[i].medicationId = medicationId /\ dayLogs[i].isOnTime

\* isMedicationTaken
isMedicationTaken(logs, date, medicationId) ==
    LET dayLogs == getLogsForDate(logs, date)
    IN  \E i \in 1..Len(dayLogs) : dayLogs[i].medicationId = medicationId

\* The effect on [user, date.getMonth()] runs fetchData, whose closure holds date
CalStartFetch(date) ==
    /\ NoticeRoom
    /\ cFetches' = Append(cFetches, [stage |-> "awaitMeds", date |-> date])
    /\ cIsLoading' = TRUE

\* The route /calendar is opened: the component mounts with date = new Date()
OpenCalendar ==
    /\ page = "none"
    /\ page' = "calendar"
    /\ cDate' = clock
    /\ cFetches' = <<[stage |-> "awaitMeds", date |-> clock]>>
    /\ cIsLoading' = TRUE
    /\ UNCHANGED <<storeVars, clock, dashVars, analyticsVars, toasts, cMedications, cLogs,
                   cInserts, loggingVars, formVars>>

\* The days the date picker offers: it passes the day's first instant
CalendarDays ==
    {At(2024, 2, 29, 0), At(2024, 3, 5, 0), At(2024, 3, 31, 0), At(2025, 3, 5, 0)}

\* onSelect={(newDate) => newDate && setDate(newDate)}, and the effect when
\* the month number changed
SelectDate ==
    /\ page = "calendar"
    /\ \E newDate \in CalendarDays :
         /\ cDate' = newDate
         /\ IF GetMonth(newDate) # GetMonth(cDate)
            THEN CalStartFetch(newDate)
            ELSE UNCHANGED <<cFetches, cIsLoading>>
    /\ UNCHANGED <<storeVars, clock, page, dashVars, analyticsVars, toasts, cMedications, cLogs,
                   cInserts, loggingVars, formVars>>

\* CalFetchFailed leaving isLoading as it is
CalFetchFailedStillLoading(i) ==
    /\ Notify("Failed to fetch calendar data")
    /\ cFetches' = RemoveAt(cFetches, i)
    /\ UNCHANGED cIsLoading

\* The catch and finally blocks of fetchData
CalFetchFailed(i) ==
    /\ Notify("Failed to fetch calendar data")
    /\ cFetches' = RemoveAt(cFetches, i)
    /\ cIsLoading' = FALSE

\* A fetchData call resumes after the medications query
CalMedsResult ==
    /\ page = "calendar"
    /\ \E i \in 1..Len(cFetches) :
         /\ cFetches[i].stage = "awaitMeds"
         /\ \E medsError \in BOOLEAN :
              IF medsError
              THEN CalFetchFailed(i) /\ UNCHANGED cMedications
              ELSE /\ cMedications' = FormatMeds(medicationsTable)
                   /\ cFetches' = [cFetches EXCEPT ![i].stage = "awaitLogs"]
                   /\ UNCHANGED <<toasts, cIsLoading>>
    /\ UNCHANGED <<storeVars, clock, page, dashVars, analyticsVars, cDate, cLogs, cInserts,
                   loggingVars, formVars>>

\* A fetchData call resumes after the dose-log query
CalLogsResult ==
    /\ page = "calendar"
    /\ \E i \in 1..Len(cFetches) :
         /\ cFetches[i].stage = "awaitLogs"
         /\ \E logsError \in BOOLEAN :
              IF logsError
              THEN CalFetchFailed(i) /\ UNCHANGED cLogs
              ELSE LET monthStart == MonthStart(cFetches[i].date)
                       monthEnd   == MonthEnd(cFetches[i].date)
                   IN  /\ cLogs' = SelectLogsBetween(doseLogsTable, monthStart, monthEnd)
                       /\ cFetches' = RemoveAt(cFetches, i)
                       /\ cIsLoading' = FALSE
                       /\ UNCHANGED toasts
    /\ UNCHANGED <<storeVars, clock, page, dashVars, analyticsVars, cDate, cMedications, cInserts,
                   loggingVars, formVars>>

\* handleLogDose(medicationId) up to its await: the closure's logs and date
\* are those of the last render, the state's
CalHandleLogDose(medicationId) ==
    /\ NoticeRoom
    /\ IF isMedicationTaken(cLogs, cDate, medicationId)
       THEN /\ Notify("You've already logged this medication today")
            /\ UNCHANGED <<doseLogsTable, cInserts>>
       ELSE /\ \E error \in BOOLEAN :
                 IF error
                 THEN /\ cInserts' = Append(cInserts, [medicationId |-> medicationId,
                                                       logs |-> cLogs, data |-> <<>>])
                      /\ UNCHANGED doseLogsTable
                 ELSE LET row == CalendarDoseLog(medicationId, clock)
                      IN  /\ Len(doseLogsTable) < MaxStoredLogs
                          /\ doseLogsTable' = Append(doseLogsTable, row)
                          /\ cInserts' = Append(cInserts, [medicationId |-> medicationId,
                                                           logs |-> cLogs, data |-> <<row>>])
            /\ UNCHANGED toasts
    /\ UNCHANGED <<medicationsTable, clock, page, dashVars, analyticsVars, cDate, cMedications,
                   cLogs, cIsLoading, cFetches, loggingVars, formVars>>

\* The Take Now button of a medication is rendered
TakeNowShown(medicationId) ==
    /\ page = "calendar"
    /\ ~cIsLoading
    /\ LET scheduledMedications == getScheduledMedications(cMedications, cDate)
       IN  \E i \in 1..Len(scheduledMedications) : scheduledMedications[i].id = medicationId
    /\ ~isMedicationTaken(cLogs, cDate, medicationId)

\* A click on Take Now
CalTakeNow ==
    \E i \in 1..Len(cMedications) :
       /\ TakeNowShown(cMedications[i].id)
       /\ CalHandleLogDose(cMedications[i].id)

\* handleLogDose resumes after the insert
CalInsertResult ==
    /\ page = "calendar"
    /\ \E i \in 1..Len(cInserts) :
         /\ cInserts' = RemoveAt(cInserts, i)
         /\ IF cInserts[i].data = <<>>
            THEN /\ Notify("Failed to log dose")
                 /\ UNCHANGED cLogs
            ELSE /\ Notify("Dose logged successfully!")
                 /\ cLogs' = Append(cInserts[i].logs, cInserts[i].data[1])
    /\ UNCHANGED <<storeVars, clock, page, dashVars, analyticsVars, cDate, cMedications,
                   cIsLoading, cFetches, loggingVars, formVars>>

-----------------------------------------------------------------------------
(* DoseLogging. *)

LogsLimit == 10

\* The orders in which .order('timestamp', { ascending: false }) may return
\* the rows: rows of equal timestamp come in either order
DescendingOrders(rows) ==
    {[i \in 1..Len(rows) |-> rows[p[i]]] :
        p \in {q \in [1..Len(rows) -> 1..Len(rows)] :
                 /\ \A a, b \in 1..Len(rows) : a # b => q[a] # q[b]
                 /\ \A a \in 1..(Len(rows) - 1) :
                      rows[q[a]].timestamp >= rows[q[a + 1]].timestamp}}

\* The route /dose-logging is opened, with or without ?medicationId=: the
\* component mounts and its effect calls fetchData, which awaits the medications
OpenLogging ==
    /\ page = "none"
    /\ page' = "logging"
    /\ \E preselectedMedicationId \in
           {<<>>} \cup {medicationsTable[i].id : i \in 1..Len(medicationsTable)} :
         selectedMedicationId' = preselectedMedicationId
    /\ lFetch' = "awaitMeds"
    /\ lIsLoading' = TRUE
    /\ UNCHANGED <<storeVars, clock, dashVars, analyticsVars, toasts, calendarVars, formVars,
                   lMedications, lRecentLogs, lInserts>>

\* fetchData resumes after the medications query
LoggingMedsResult ==
    /\ page = "logging"
    /\ lFetch = "awaitMeds"
    /\ \E medsError \in BOOLEAN :
         IF medsError
         THEN /\ Notify("Failed to fetch data")
              /\ lIsLoading' = FALSE
              /\ lFetch' = "failed"
              /\ UNCHANGED lMedications
         ELSE /\ lMedications' = FormatMeds(medicationsTable)
              /\ lFetch' = "awaitLogs"
              /\ UNCHANGED <<toasts, lIsLoading>>
    /\ UNCHANGED <<storeVars, clock, page, dashVars, analyticsVars, calendarVars, formVars,
                   selectedMedicationId, lRecentLogs, lInserts>>

\* fetchData resumes after the dose-log query
LoggingLogsResult ==
    /\ page = "logging"
    /\ lFetch = "awaitLogs"
    /\ \E logsError \in BOOLEAN :
         IF logsError
         THEN /\ Notify("Failed to fetch data")
              /\ lFetch' = "failed"
              /\ UNCHANGED lRecentLogs
         ELSE /\ \E ordered \in DescendingOrders(doseLogsTable) :
                   lRecentLogs' = Slice(ordered, LogsLimit)
              /\ lFetch' = "done"
              /\ UNCHANGED toasts
    /\ lIsLoading' = FALSE
    /\ UNCHANGED <<storeVars, clock, page, dashVars, analyticsVars, calendarVars, formVars,
                   lMedications, selectedMedicationId, lInserts>>

\* onValueChange={setSelectedMedicationId}, of a Select that is not disabled
SelectMedication ==
    /\ page = "logging"
    /\ ~(lIsLoading \/ Len(lMedications) = 0)
    /\ \E i \in 1..Len(lMedications) : selectedMedicationId' = lMedications[i].id
    /\ UNCHANGED <<storeVars, clock, page, dashVars, analyticsVars, toasts, calendarVars, formVars,
                   lFetch, lMedications, lRecentLogs, lIsLoading, lInserts>>

\* handleLogDose up to its await: the closure's selectedMedicationId and
\* recentLogs are those of the last render, the state's
LoggingHandleLogDose ==
    /\ page = "logging"
    /\ NoticeRoom
    /\ IF selectedMedicationId = <<>>
       THEN /\ Notify("Please select a medication")
            /\ UNCHANGED <<doseLogsTable, lInserts>>
       ELSE /\ \E error \in BOOLEAN :
                 IF error
                 THEN /\ lInserts' = Append(lInserts, [recentLogs |-> lRecentLogs, data |-> <<>>])
                      /\ UNCHANGED doseLogsTable
                 ELSE LET now == clock
                          row == LoggingDoseLog(selectedMedicationId, now)
                      IN  /\ Len(doseLogsTable) < MaxStoredLogs
                          /\ doseLogsTable' = Append(doseLogsTable, row)
                          /\ lInserts' = Append(lInserts, [recentLogs |-> lRecentLogs,
                                                           data |-> <<row>>])
            /\ UNCHANGED toasts
    /\ UNCHANGED <<medicationsTable, clock, page, dashVars, analyticsVars, calendarVars, formVars,
                   lFetch, lMedications, selectedMedicationId, lRecentLogs, lIsLoading>>

\* A click on Mark as Taken, which is disabled without a selection
MarkAsTaken ==
    /\ selectedMedicationId # <<>>
    /\ LoggingHandleLogDose

\* handleLogDose resumes after the insert
LoggingInsertResult ==
    /\ page = "logging"
    /\ \E i \in 1..Len(lInserts) :
         /\ lInserts' = RemoveAt(lInserts, i)
         /\ IF lInserts[i].data = <<>>
            THEN /\ Notify("Failed to log dose")
                 /\ UNCHANGED <<lRecentLogs, selectedMedicationId>>
            ELSE /\ Notify("Dose logged successfully!")
                 /\ lRecentLogs' = <<lInserts[i].data[1]>> \o lInserts[i].recentLogs
                 /\ selectedMedicationId' = <<>>
    /\ UNCHANGED <<storeVars, clock, page, dashVars, analyticsVars, calendarVars, formVars,
                   lFetch, lMedications, lIsLoading>>

\* The user navigates away: the page unmounts, its state is dropped, calls
\* in flight no longer reach it, and the notices expire
Leave ==
    /\ page # "none"
    /\ page' = "none"
    /\ dFetch' = "idle" /\ dMedications' = <<>> /\ dNow' = Null /\ upcomingDoses' = <<>>
    /\ recentLogs' = <<>> /\ adherenceStats' = InitialStats /\ dIsLoading' = TRUE
    /\ aFetch' = "idle" /\ aMedications' = <<>> /\ aLogs' = <<>> /\ weeklyData' = <<>>
    /\ weeklyFor' = Null /\ mostMissed' = <<>> /\ aIsLoading' = TRUE
    /\ currentWeekStart' = Null /\ nextDisabled' = TRUE
    /\ toasts' = <<>>
    /\ cDate' = Null /\ cMedications' = <<>> /\ cLogs' = <<>> /\ cIsLoading' = TRUE
    /\ cFetches' = <<>> /\ cInserts' = <<>>
    /\ lFetch' = "idle" /\ lMedications' = <<>> /\ selectedMedicationId' = <<>>
    /\ lRecentLogs' = <<>> /\ lIsLoading' = TRUE /\ lInserts' = <<>>
    /\ fFrequency' = "once_daily" /\ fTimes' = <<>> /\ fTimeInput' = <<>> /\ fSubmits' = <<>>
    /\ UNCHANGED <<storeVars, clock>>

-----------------------------------------------------------------------------
(* AddMedication. *)

T1200 == <<"1", "2", ":", "0", "0">>
T1400 == <<"1", "4", ":", "0", "0">>
T1600 == <<"1", "6", ":", "0", "0">>

\* frequencyOptions
Frequencies ==
    {"once_daily", "twice_daily", "three_times_daily", "four_times_daily", "custom"}

\* updateDefaultTimes setting 08:00 alone for every frequency
DefaultTimesOnce(frequency) == <<T0800>>

\* The times updateDefaultTimes sets for a frequency
DefaultTimes(frequency) ==
    CASE frequency = "once_daily"        -> <<T0800>>
      [] frequency = "twice_daily"       -> <<T0800, T2000>>
      [] frequency = "three_times_daily" -> <<T0800, T1400, T2000>>
      [] frequency = "four_times_daily"  -> <<T0800, T1200, T1600, T2000>>

\* How many rows of medications the model lets the store hold
MaxStoredMeds == 1

\* The route /medications/new is opened: the form mounts with no times
OpenAddMedication ==
    /\ page = "none"
    /\ page' = "addMedication"
    /\ UNCHANGED <<storeVars, clock, dashVars, analyticsVars, toasts, entryVars>>

\* onFrequencyChange(value)
OnFrequencyChange ==
    /\ page = "addMedication"
    /\ \E value \in Frequencies :
         /\ fFrequency' = value
         /\ IF value # "custom"
            THEN fTimes' = DefaultTimes(value)
            ELSE UNCHANGED fTimes
    /\ UNCHANGED <<storeVars, clock, page, dashVars, analyticsVars, toasts, calendarVars,
                   loggingVars, fTimeInput, fSubmits>>

\* onChange of the time input: a time of day, or the cleared input
SetTimeInput ==
    /\ page = "addMedication"
    /\ fTimeInput' \in {<<>>, T0730}
    /\ UNCHANGED <<storeVars, clock, page, dashVars, analyticsVars, toasts, calendarVars,
                   loggingVars, fFrequency, fTimes, fSubmits>>

\* addTime
AddTime ==
    /\ page = "addMedication"
    /\ IF fTimeInput # <<>> /\ ~(\E i \in 1..Len(fTimes) : fTimes[i] = fTimeInput)
       THEN /\ fTimes' = Append(fTimes, fTimeInput)
            /\ fTimeInput' = <<>>
       ELSE UNCHANGED <<fTimes, fTimeInput>>
    /\ UNCHANGED <<storeVars, clock, page, dashVars, analyticsVars, toasts, calendarVars,
                   loggingVars, fFrequency, fSubmits>>

\* removeTime(index), from the button of a listed time
RemoveTime ==
    /\ page = "addMedication"
    /\ \E index \in 0..(Len(fTimes) - 1) : fTimes' = RemoveAt(fTimes, index + 1)
    /\ UNCHANGED <<storeVars, clock, page, dashVars, analyticsVars, toasts, calendarVars,
                   loggingVars, fFrequency, fTimeInput, fSubmits>>

\* NoTimes that never holds
NoTimesNever(times) == FALSE

\* times.length === 0
NoTimes(times) == Len(times) = 0

\* The medications row that onSubmit inserts; name and dates are the form's
\* validated values, the id is the store's default
NewMedicationRow(name, startDate, endDate) ==
    [id |-> IdOf(Len(medicationsTable) + 1), name |-> name, times |-> fTimes,
     startDate |-> startDate, endDate |-> endDate]

\* onSubmit up to its await, called by handleSubmit with valid form values
Submit ==
    /\ page = "addMedication"
    /\ NoticeRoom
    /\ IF NoTimes(fTimes)
       THEN /\ Notify("Please add at least one time for your medication")
            /\ UNCHANGED <<medicationsTable, fSubmits>>
       ELSE /\ \E error \in BOOLEAN :
                 IF error
                 THEN /\ fSubmits' = Append(fSubmits, TRUE)
                      /\ UNCHANGED medicationsTable
                 ELSE /\ Len(medicationsTable) < MaxStoredMeds
                      /\ \E endDate \in {Null, At(2024, 3, 31, 0)} :
                           medicationsTable' =
                               Append(medicationsTable,
                                      NewMedicationRow(NameOf(Len(medicationsTable) + 1),
                                                       clock, endDate))
                      /\ fSubmits' = Append(fSubmits, FALSE)
            /\ UNCHANGED toasts
    /\ UNCHANGED <<doseLogsTable, clock, page, dashVars, analyticsVars, calendarVars, loggingVars,
                   fFrequency, fTimes, fTimeInput>>

\* onSubmit resumes after the insert: on success it navigates to /medications
SubmitResult ==
    /\ page = "addMedication"
    /\ \E i \in 1..Len(fSubmits) :
         /\ fSubmits' = RemoveAt(fSubmits, i)
         /\ IF fSubmits[i]
            THEN /\ Notify("Failed to add medication")
                 /\ UNCHANGED page
            ELSE /\ Notify("Medication added successfully!")
                 /\ page' = "medications"
    /\ UNCHANGED <<storeVars, clock, dashVars, analyticsVars, calendarVars, loggingVars,
                   fFrequency, fTimes, fTimeInput>>

-----------------------------------------------------------------------------
(* The upcoming-dose projection of the Dashboard on 2024-03-05. *)

MaxUpcomingMeds == 2

UpcomingNows ==
    {At(2024, 3, 5, Clock(7, 0, 0)), At(2024, 3, 5, Clock(8, 0, 0)),
     At(2024, 3, 5, Clock(8, 0, 30)), At(2024, 3, 5, Clock(9, 0, 0)),
     At(2024, 3, 5, Clock(23, 59, 59))}

UpcomingTimes == {<<T0800>>, <<T0800, T2000>>, <<T2000, T0730>>}

UpcomingStarts == {At(2024, 3, 4, 0), At(2024, 3, 5, Clock(8, 0, 30))}

UpcomingEnds == {Null, At(2024, 3, 5, Clock(8, 0, 30))}

InitUpcoming ==
    /\ Unmounted
    /\ clock \in UpcomingNows
    /\ doseLogsTable = <<>>
    /\ \E n \in 0..MaxUpcomingMeds :
         \E times \in [1..n -> UpcomingTimes], starts \in [1..n -> UpcomingStarts],
            ends \in [1..n -> UpcomingEnds] :
            medicationsTable =
                MedRows(n, [i \in 1..n |-> [name |-> NameOf(i), times |-> times[i],
                                            startDate |-> starts[i], endDate |-> ends[i]]])

NextDashboard == OpenDashboard \/ DashMedsResult \/ DashLogsResult

SpecUpcoming == InitUpcoming /\ [][NextDashboard]_vars

\* The Dashboard has computed its upcoming doses
UpcomingComputed == dNow # Null

\* The due instant the projection is to give a time of day h:m at now
ExpectedDue(timeStr, now) ==
    LET t        == ParseTime(timeStr)
        candidate == StartOfDay(now) + Clock(t.hours, t.minutes, 0)
    IN  IF candidate >= now THEN candidate ELSE candidate + SecondsPerDay

\* The pairs <<i, k>> of a medication row and one of its times
TimeSlots(meds) == {<<i, k>> \in (1..Len(meds)) \X (1..3) : k <= Len(meds[i].times)}

\* now is not before the medication's start, and the medication has no end
\* or its end is not before now
InWindow(med, now) ==
    /\ ~(now < med.startDate)
    /\ (med.endDate = Null \/ ~(med.endDate < now))

\* C1: a medication contributes due entries if and only if now is not before
\* its start and it has no end or its end is not before now (an end equal to
\* now included).  Stated on the stored list: a medication outside the window
\* has no entry, and when the entries of the medications inside the window
\* are at most three, each of them has one.
C1_EligibleIffInWindow ==
    UpcomingComputed =>
        LET inside == {s \in TimeSlots(dMedications) : InWindow(dMedications[s[1]], dNow)}
        IN  \A i \in 1..Len(dMedications) :
              LET med     == dMedications[i]
                  present == \E j \in 1..Len(upcomingDoses) : upcomingDoses[j].medication = med
              IN  /\ present => InWindow(med, dNow)
                  /\ (InWindow(med, dNow) /\ Cardinality(inside) <= UpcomingLimit) => present

\* The slots the filter of the code lets through
KeptSlots == {s \in TimeSlots(dMedications) : IsUpcoming(dMedications[s[1]], dNow)}

\* C2: every projected due instant is today at HH:MM:00 when that is not
\* before now and otherwise tomorrow at HH:MM:00, so it lies in
\* [now, now + 1 day): every stored entry is the expected instant of one of
\* its medication's times, and when nothing was cut off every time of every
\* medication the filter kept has its entry.
C2_DueTodayOrTomorrow ==
    UpcomingComputed =>
        /\ \A j \in 1..Len(upcomingDoses) :
             LET e == upcomingDoses[j]
             IN  /\ \E k \in 1..Len(e.medication.times) :
                       e.dueTime = ExpectedDue(e.medication.times[k], dNow)
                 /\ dNow <= e.dueTime
                 /\ e.dueTime < dNow + SecondsPerDay
        /\ Cardinality(KeptSlots) <= UpcomingLimit =>
             \A s \in KeptSlots :
               \E j \in 1..Len(upcomingDoses) :
                 /\ upcomingDoses[j].medication = dMedications[s[1]]
                 /\ upcomingDoses[j].dueTime =
                        ExpectedDue(dMedications[s[1]].times[s[2]], dNow)

\* A state where one time of day was projected to today and another to tomorrow
C2_Witness ==
    /\ UpcomingComputed
    /\ \E j, k \in 1..Len(upcomingDoses) :
         /\ DayOf(upcomingDoses[j].dueTime) = DayOf(dNow)
         /\ DayOf(upcomingDoses[k].dueTime) = DayOf(dNow) + 1
         /\ upcomingDoses[k].dueTime < dNow + SecondsPerDay

\* Slot s comes before slot t in the stably sorted projection
DueBefore(s, t) ==
    LET ds == ExpectedDue(dMedications[s[1]].times[s[2]], dNow)
        dt == ExpectedDue(dMedications[t[1]].times[t[2]], dNow)
    IN  \/ ds < dt
        \/ ds = dt /\ (s[1] < t[1] \/ (s[1] = t[1] /\ s[2] < t[2]))

\* C3: the list is ascending by due instant, equal due instants keep the
\* input order, and it is cut to the limit: its j-th entry is the slot that
\* exactly j - 1 slots precede, for j up to the limit.
C3_SortedStableTruncated ==
    UpcomingComputed =>
        /\ Len(upcomingDoses) = Min2(Cardinality(KeptSlots), 3)
        /\ \A j \in 1..Len(upcomingDoses) :
             \E s \in KeptSlots :
               /\ Cardinality({t \in KeptSlots : DueBefore(t, s)}) = j - 1
               /\ upcomingDoses[j] =
                      [medication |-> dMedications[s[1]],
                       dueTime    |-> ExpectedDue(dMedications[s[1]].times[s[2]], dNow)]

\* A state where four entries were projected, two medications tie on a due
\* instant inside the kept three, and the later entry was cut off
C3_Witness ==
    /\ UpcomingComputed
    /\ Cardinality(KeptSlots) > UpcomingLimit
    /\ Len(upcomingDoses) = UpcomingLimit
    /\ \E j \in 1..2 :
         /\ upcomingDoses[j].dueTime = upcomingDoses[j + 1].dueTime
         /\ upcomingDoses[j].medication # upcomingDoses[j + 1].medication

-----------------------------------------------------------------------------
(* The adherence rate of Dashboard and Analytics on 2024-03-05. *)

NextPages ==
    \/ OpenDashboard \/ DashMedsResult \/ DashLogsResult
    \/ OpenAnalytics \/ AnalyticsMedsResult \/ AnalyticsLogsResult

\* A medication row taken daily at 08:00 since 2024-01-01, as the i-th row
DailyMed(i, name) ==
    [id |-> IdOf(i), name |-> name, times |-> <<T0800>>,
     startDate |-> At(2024, 1, 1, 0), endDate |-> Null]

\* Dose-log rows from per-row choices, with ids in row order
LogRows(n, f) ==
    [i \in 1..n |-> [id |-> <<"l", "-">> \o Numeral(i), medicationId |-> f[i].medicationId,
                     timestamp |-> f[i].timestamp, isOnTime |-> f[i].isOnTime]]

MaxRateLogs == 3

\* Timestamps inside and outside the three months before 2024-03-05
RateTimestamps == {At(2024, 3, 1, Clock(8, 5, 0)), At(2023, 11, 30, Clock(8, 5, 0))}

InitRate ==
    /\ Unmounted
    /\ clock = At(2024, 3, 5, Clock(9, 0, 0))
    /\ medicationsTable = <<DailyMed(1, NameOf(1)), DailyMed(2, NameOf(2))>>
    /\ \E n \in 0..MaxRateLogs :
         \E meds \in [1..n -> {IdOf(1), IdOf(2)}], stamps \in [1..n -> RateTimestamps],
            flags \in [1..n -> BOOLEAN] :
            doseLogsTable =
                LogRows(n, [i \in 1..n |-> [medicationId |-> meds[i], timestamp |-> stamps[i],
                                            isOnTime |-> flags[i]]])

SpecRate == InitRate /\ [][NextPages]_vars

\* The Dashboard, or Analytics, has fetched and processed medications and logs
DashboardLoaded == page = "dashboard" /\ dFetch = "done"

AnalyticsLoaded == page = "analytics" /\ aFetch = "done"

\* The number of logs with on-time flag true
OnTimeLogs(logs) == Cardinality({i \in 1..Len(logs) : logs[i].isOnTime = TRUE})

\* r is an integer nearest to 100 * taken / total
NearestPercent(r, taken, total) ==
    /\ 2 * (100 * taken - r * total) <= total
    /\ 2 * (r * total - 100 * taken) <= total

\* The integer r is what the claim gives the logs as their adherence percentage
IsAdherenceOf(r, logs) ==
    IF Len(logs) = 0 THEN r = 0 ELSE NearestPercent(r, OnTimeLogs(logs), Len(logs))

\* C4: the overall adherence percentage of Analytics and the adherenceRate
\* of the Dashboard's AdherenceStat both equal 100 * on-time / total rounded
\* to the nearest integer, and 0 for no logs.
C4_RoundedPercentage ==
    /\ AnalyticsLoaded => IsAdherenceOf(calculateOverallAdherence(aLogs), aLogs)
    /\ DashboardLoaded =>
         /\ adherenceStats.adherenceRate.den = 1
         /\ IsAdherenceOf(adherenceStats.adherenceRate.num, recentLogs)

\* The value num / den is in [0, 100], 0 for no logs, 100 for logs that are
\* all on time, 0 for logs none of which is on time
InRangeAndExact(num, den, logs) ==
    /\ 0 <= num /\ num <= 100 * den
    /\ Len(logs) = 0 => num = 0
    /\ (Len(logs) > 0 /\ \A i \in 1..Len(logs) : logs[i].isOnTime) => num = 100 * den
    /\ (\A i \in 1..Len(logs) : ~logs[i].isOnTime) => num = 0

\* C5: the overall adherence lies in [0, 100]; it is 0 for no logs, 100 when
\* there are logs and all are on time, 0 when none is on time.
C5_AdherenceBounds ==
    /\ AnalyticsLoaded => InRangeAndExact(calculateOverallAdherence(aLogs), 1, aLogs)
    /\ DashboardLoaded =>
         InRangeAndExact(adherenceStats.adherenceRate.num, adherenceStats.adherenceRate.den,
                         recentLogs)

\* A state where the Dashboard has computed the rate of logs that are all on time
C5_Witness ==
    /\ DashboardLoaded
    /\ Len(recentLogs) = 2
    /\ \A i \in 1..Len(recentLogs) : recentLogs[i].isOnTime
    /\ adherenceStats.adherenceRate = Fraction(100, 1)

-----------------------------------------------------------------------------
(* The most-missed ranking of Dashboard and Analytics on 2024-03-05. *)

MaxRankMeds == 6

MaxMissed == 2

\* The names of n medication rows: each row its own name, or the second row
\* carrying the first row's name, or the second row named "10"
RankNamings(n) ==
    {[i \in 1..n |-> NameOf(i)]}
    \cup (IF n < 2 THEN {}
          ELSE {[i \in 1..n |-> IF i = 2 THEN NameOf(1) ELSE NameOf(i)],
                [i \in 1..n |-> IF i = 2 THEN <<"1", "0">> ELSE NameOf(i)]})

\* For every medication row i, missed[i] logs that are not on time and one
\* that is, all within the last three months
RECURSIVE RankLogChoices(_, _, _)
RankLogChoices(n, missed, i) ==
    IF i > n THEN <<>>
    ELSE [k \in 1..(missed[i] + 1) |->
             [medicationId |-> IdOf(i), timestamp |-> At(2024, 3, 1, Clock(8, 5, 0)) + k,
              isOnTime |-> (k > missed[i])]]
         \o RankLogChoices(n, missed, i + 1)

InitRank ==
    /\ Unmounted
    /\ clock = At(2024, 3, 5, Clock(9, 0, 0))
    /\ \E n \in 0..MaxRankMeds :
         \E names \in RankNamings(n), missed \in [1..n -> 0..MaxMissed] :
            /\ medicationsTable = [i \in 1..n |-> DailyMed(i, names[i])]
            /\ LET choices == RankLogChoices(n, missed, 1)
               IN  doseLogsTable = LogRows(Len(choices), choices)

SpecRank == InitRank /\ [][NextPages]_vars

\* The number of logs that reference the medication's id and are not on time
MissedLogs(logs, med) ==
    Cardinality({i \in 1..Len(logs) : logs[i].medicationId = med.id /\ logs[i].isOnTime = FALSE})

\* The list reports, for the medications meds and the logs, each medication's own count
ReportsOwnCounts(list, meds, logs, topN) ==
    /\ \A j \in 1..Len(list) :
         \E i \in 1..Len(meds) :
           /\ meds[i].name = list[j].medication
           /\ MissedLogs(logs, meds[i]) = list[j].count
    /\ Len(list) < topN =>
         \A i \in 1..Len(meds) :
           MissedLogs(logs, meds[i]) > 0 =>
             \E j \in 1..Len(list) :
               /\ list[j].medication = meds[i].name
               /\ list[j].count = MissedLogs(logs, meds[i])

\* C6: the count reported for a medication in the most-missed list, on
\* Dashboard and on Analytics, is the number of logs that reference its id
\* and are not on time, also when medications share a name.
C6_CountPerMedicationId ==
    /\ AnalyticsLoaded => ReportsOwnCounts(mostMissed, aMedications, aLogs, 5)
    /\ DashboardLoaded =>
         ReportsOwnCounts(adherenceStats.mostMissed, dMedications, recentLogs, 3)

\* The list has no entry with count 0, at most topN entries, and counts that do not increase
WellFormedRanking(list, topN) ==
    /\ \A j \in 1..Len(list) : list[j].count > 0
    /\ Len(list) <= topN
    /\ \A j \in 1..(Len(list) - 1) : list[j].count >= list[j + 1].count

\* C7: the most-missed list never has an entry with count 0, has at most
\* topN entries (3 on the Dashboard, 5 on Analytics), and its counts are in
\* non-increasing order.
C7_RankingWellFormed ==
    /\ AnalyticsLoaded => WellFormedRanking(mostMissed, 5)
    /\ DashboardLoaded => WellFormedRanking(adherenceStats.mostMissed, 3)

\* A state where Analytics ranked six medications with missed doses of
\* different counts and kept five
C7_Witness ==
    /\ AnalyticsLoaded
    /\ Cardinality({i \in 1..Len(aMedications) : MissedLogs(aLogs, aMedications[i]) > 0}) = 6
    /\ Len(mostMissed) = 5
    /\ mostMissed[1].count > mostMissed[5].count

\* Medication row a is ranked before row b: more missed doses, or as many and earlier in the input
RankedBefore(meds, logs, a, b) ==
    \/ MissedLogs(logs, meds[a]) > MissedLogs(logs, meds[b])
    \/ MissedLogs(logs, meds[a]) = MissedLogs(logs, meds[b]) /\ a < b

\* The list is the first topN of the medications with missed doses, by count
\* descending and, among equal counts, in input order
RankedInInputOrder(list, meds, logs, topN) ==
    LET missing == {i \in 1..Len(meds) : MissedLogs(logs, meds[i]) > 0}
    IN  /\ Len(list) = Min2(Cardinality(missing), topN)
        /\ \A j \in 1..Len(list) :
             \E i \in missing :
               /\ Cardinality({a \in missing : RankedBefore(meds, logs, a, i)}) = j - 1
               /\ list[j] = [medication |-> meds[i].name, count |-> MissedLogs(logs, meds[i])]

\* C8: medications with equal missed counts appear in the order of the input
\* medication collection, on Dashboard and on Analytics, and the cut to topN
\* keeps the earliest of them.
C8_TiesKeepInputOrder ==
    /\ AnalyticsLoaded => RankedInInputOrder(mostMissed, aMedications, aLogs, 5)
    /\ DashboardLoaded =>
         RankedInInputOrder(adherenceStats.mostMissed, dMedications, recentLogs, 3)

-----------------------------------------------------------------------------
(* The weekly adherence of Analytics in the weeks around 2024-03-05. *)

\* The instants the clock may move on to
ClockTicks == {At(2024, 3, 10, 0)}

\* Time passes
Tick ==
    /\ \E t \in ClockTicks : t > clock /\ clock' = t
    /\ UNCHANGED <<storeVars, entryVars, page, dashVars, analyticsVars, toasts>>

NextAnalytics ==
    \/ OpenAnalytics \/ AnalyticsMedsResult \/ AnalyticsLogsResult
    \/ NavigatePreviousWeek \/ NavigateNextWeek \/ Tick

MaxWeekLogs == 3

\* The last instant of a Saturday, the first of the Sunday after it, a
\* Tuesday morning, and noon of the Sunday a week before
WeekTimestamps ==
    {At(2024, 3, 2, Clock(23, 59, 59)), At(2024, 3, 3, 0),
     At(2024, 3, 5, Clock(8, 5, 0)), At(2024, 2, 25, Clock(12, 0, 0))}

InitWeek ==
    /\ Unmounted
    /\ clock = At(2024, 3, 5, Clock(9, 0, 0))
    /\ medicationsTable = <<DailyMed(1, NameOf(1))>>
    /\ \E n \in 0..MaxWeekLogs :
         \E stamps \in [1..n -> WeekTimestamps], flags \in [1..n -> BOOLEAN] :
            doseLogsTable =
                LogRows(n, [i \in 1..n |-> [medicationId |-> IdOf(1), timestamp |-> stamps[i],
                                            isOnTime |-> flags[i]]])

SpecWeek == InitWeek /\ [][NextAnalytics]_vars

\* calculateWeeklyAdherence has run
WeeklyComputed == weeklyFor # Null

\* The label is the month abbreviation and day of month of the day numbered d
IsLabelOfDay(label, d) ==
    \E y \in 2023..2025, m \in 1..12 :
       /\ DaysFromCivil(y, m, 1) <= d
       /\ d < DaysFromCivil(y, m + 1, 1)
       /\ label = <<MonthAbbreviation[m], d - DaysFromCivil(y, m, 1) + 1>>

\* The indices of the loaded logs whose timestamp is on the day numbered d
LogsOnDay(d) ==
    {k \in 1..Len(aLogs) : aLogs[k].timestamp \div SecondsPerDay = d}

\* C9: the aggregation gives exactly one entry per calendar day of the week
\* it was asked for, Sunday through Saturday in ascending order, seven in
\* all, and a day without logs has rate 0, total 0 and taken 0.
C9_OneEntryPerDay ==
    WeeklyComputed =>
        LET first == weeklyFor \div SecondsPerDay
        IN  /\ weeklyFor % SecondsPerDay = 0
            /\ Len(weeklyData) = 7
            /\ \A i \in 1..Len(weeklyData) :
                 /\ (first + (i - 1) + 4) % 7 = i - 1
                 /\ IsLabelOfDay(weeklyData[i].date, first + (i - 1))
                 /\ LogsOnDay(first + (i - 1)) = {} =>
                      /\ weeklyData[i].adherenceRate = 0
                      /\ weeklyData[i].total = 0
                      /\ weeklyData[i].taken = 0

\* A state where the window was moved to the week of Feb 25 to Mar 2, which
\* has days with logs and days without
C9_Witness ==
    /\ WeeklyComputed
    /\ weeklyFor = At(2024, 2, 25, 0)
    /\ currentWeekStart = weeklyFor
    /\ Len(weeklyData) = 7
    /\ weeklyData[1].total > 0
    /\ weeklyData[2].total = 0
    /\ weeklyData[7].date = <<"Mar", 2>>

\* C10: a day's bucket holds exactly the logs whose timestamp is on that
\* local calendar day: total counts them, taken counts those on time, and
\* rate is 100 * taken / total rounded to the nearest integer, 0 for total 0.
C10_DayBuckets ==
    WeeklyComputed =>
        \A i \in 1..Len(weeklyData) :
          LET onDay == LogsOnDay(weeklyFor \div SecondsPerDay + (i - 1))
              taken == {k \in onDay : aLogs[k].isOnTime = TRUE}
              entry == weeklyData[i]
          IN  /\ entry.total = Cardinality(onDay)
              /\ entry.taken = Cardinality(taken)
              /\ entry.taken <= entry.total
              /\ IF entry.total = 0 THEN entry.adherenceRate = 0
                 ELSE NearestPercent(entry.adherenceRate, entry.taken, entry.total)

\* A state where a day has three logs, two of them on time, and the days
\* before and after it have none of them
C10_Witness ==
    /\ WeeklyComputed
    /\ \E i \in 2..6 :
         /\ weeklyData[i].total = 3
         /\ weeklyData[i].taken = 2
         /\ weeklyData[i].adherenceRate = 67
         /\ weeklyData[i - 1].total = 0
         /\ weeklyData[i + 1].total = 0

\* The first instant of the Sunday that begins the calendar week of t
SundayOf(t) == ((t \div 86400) - (((t \div 86400) + 4) % 7)) * 86400

\* C11: while Analytics is mounted, whatever Previous and Next navigations
\* were made and however the clock moved forward, currentWeekStart is never
\* later than the start of the current calendar week.
C11_NeverFutureWeek ==
    page = "analytics" => currentWeekStart <= SundayOf(clock)

\* A state where the window was moved two weeks back, where the Next button
\* is enabled
C11_Witness ==
    /\ WeekButtonsShown
    /\ currentWeekStart = SundayOf(clock) - 14 * 86400
    /\ weeklyFor = currentWeekStart
    /\ ~nextDisabled

-----------------------------------------------------------------------------
(* The upcoming-dose projection for malformed times of day, on 2024-03-05. *)

MaxMalformedMeds == 2

\* "08:00", "20:00", and the malformed "8am", "08:xx" and "0800"
MalformedTimes ==
    {T0800, T2000, <<"8", "a", "m">>, <<"0", "8", ":", "x", "x">>, <<"0", "8", "0", "0">>}

InitMalformed ==
    /\ Unmounted
    /\ clock \in UpcomingNows
    /\ doseLogsTable = <<>>
    /\ \E n \in 1..MaxMalformedMeds :
         \E times \in [1..n -> {<<t>> : t \in MalformedTimes}
                               \cup {<<t, u>> : t \in MalformedTimes, u \in MalformedTimes}] :
            medicationsTable =
                MedRows(n, [i \in 1..n |-> [name |-> NameOf(i), times |-> times[i],
                                            startDate |-> At(2024, 3, 4, 0), endDate |-> Null]])

SpecMalformed == InitMalformed /\ [][NextDashboard]_vars

\* The string is HH:MM, two decimal digits, a colon, two decimal digits
IsHHMM(timeStr) ==
    /\ Len(timeStr) = 5
    /\ timeStr[3] = ":"
    /\ \A i \in {1, 2, 4, 5} : timeStr[i] \in {"0", "1", "2", "3", "4", "5", "6", "7", "8", "9"}

\* C18: when a time of day of a medication the projection keeps is not
\* HH:MM, the Dashboard's fetchData ends in its failure branch instead of
\* going on, and in no case does the stored list hold an entry whose due
\* instant is invalid.
C18_MalformedTimeFails ==
    /\ \A j \in 1..Len(upcomingDoses) : upcomingDoses[j].dueTime # NaN
    /\ ~(/\ page = "dashboard"
          /\ dFetch \in {"awaitLogs", "done"}
          /\ \E s \in KeptSlots : ~IsHHMM(dMedications[s[1]].times[s[2]]))

-----------------------------------------------------------------------------
(* The Calendar, and the fetches of the three viewing pages, around 2024-03-05. *)

NextCalendar ==
    \/ OpenCalendar \/ SelectDate \/ CalMedsResult \/ CalLogsResult
    \/ CalTakeNow \/ CalInsertResult

NextViews == NextPages \/ NextCalendar

MaxCalendarLogs == 2

\* Start and end instants around the days the date picker offers
CalendarWindows ==
    {[startDate |-> At(2024, 3, 1, 0), endDate |-> Null],
     [startDate |-> At(2024, 3, 5, 0), endDate |-> At(2024, 3, 5, 0)],
     [startDate |-> At(2024, 3, 5, Clock(9, 0, 0)), endDate |-> At(2024, 3, 31, 0)],
     [startDate |-> At(2024, 2, 1, 0), endDate |-> At(2024, 3, 4, Clock(12, 0, 0))]}

\* Logs of the two medications on and around the days the date picker offers
CalendarLogChoices ==
    {[medicationId |-> IdOf(1), timestamp |-> At(2024, 3, 5, Clock(8, 5, 0)), isOnTime |-> TRUE],
     [medicationId |-> IdOf(1), timestamp |-> At(2024, 3, 4, Clock(23, 59, 59)), isOnTime |-> FALSE],
     [medicationId |-> IdOf(2), timestamp |-> At(2024, 3, 5, 0), isOnTime |-> FALSE],
     [medicationId |-> IdOf(2), timestamp |-> At(2024, 2, 29, Clock(12, 0, 0)), isOnTime |-> TRUE]}

InitCalendar ==
    /\ Unmounted
    /\ clock = At(2024, 3, 5, Clock(9, 0, 0))
    /\ \E w \in [1..2 -> CalendarWindows] :
         medicationsTable =
             MedRows(2, [i \in 1..2 |-> [name |-> NameOf(i), times |-> <<T0800>>,
                                         startDate |-> w[i].startDate,
                                         endDate |-> w[i].endDate]])
    /\ \E n \in 0..MaxCalendarLogs :
         \E choices \in [1..n -> CalendarLogChoices] :
            doseLogsTable = LogRows(n, choices)

SpecCalendar == InitCalendar /\ [][NextViews]_vars

\* The instant t is before the instant u
Earlier(t, u) == t < u

\* C12: a medication is listed as scheduled for the selected date exactly
\* when its start instant is not after the selected instant and it has no
\* end date or its end instant is not before the selected instant; the
\* listed medications keep their loaded order.
C12_ScheduledIffInWindow ==
    page = "calendar" =>
        LET listed == getScheduledMedications(cMedications, cDate)
            inside == {i \in 1..Len(cMedications) :
                         /\ ~Earlier(cDate, cMedications[i].startDate)
                         /\ (cMedications[i].endDate = Null
                             \/ ~Earlier(cMedications[i].endDate, cDate))}
        IN  /\ Len(listed) = Cardinality(inside)
            /\ \A i \in 1..Len(cMedications) :
                 (\E j \in 1..Len(listed) : listed[j] = cMedications[i]) <=> i \in inside
            /\ \A i \in inside :
                 listed[Cardinality({k \in inside : k <= i})] = cMedications[i]

\* A state where, for the selected first instant of 2024-03-05, a medication
\* that ends at that instant is listed and one that ended the day before is not
C12_Witness ==
    /\ page = "calendar"
    /\ cDate = At(2024, 3, 5, 0)
    /\ Len(cMedications) = 2
    /\ cMedications[1].endDate = cDate
    /\ cMedications[2].endDate = At(2024, 3, 4, Clock(12, 0, 0))
    /\ getScheduledMedications(cMedications, cDate) = <<cMedications[1]>>

\* The indices of the loaded logs whose timestamp is on the local calendar
\* day of the selected date
LoadedOnSelectedDay == {k \in 1..Len(cLogs) : cLogs[k].timestamp \div 86400 = cDate \div 86400}

\* C13: isMedicationTaken(id) is true exactly when a loaded log of that
\* medication has its timestamp on the selected date's local calendar day,
\* whatever its time of day and on-time flag; getLogsForDate gives exactly
\* the loaded logs of that day, in their loaded order.
C13_TakenIffLoggedThatDay ==
    page = "calendar" =>
        LET dayLogs == getLogsForDate(cLogs, cDate)
        IN  /\ \A m \in 1..Len(medicationsTable) :
                 isMedicationTaken(cLogs, cDate, medicationsTable[m].id)
                 <=> \E k \in LoadedOnSelectedDay : cLogs[k].medicationId = medicationsTable[m].id
            /\ Len(dayLogs) = Cardinality(LoadedOnSelectedDay)
            /\ \A k \in LoadedOnSelectedDay :
                 dayLogs[Cardinality({j \in LoadedOnSelectedDay : j <= k})] = cLogs[k]

\* A state where the selected instant is 09:00 of 2024-03-05 and the loaded
\* logs are one of the last second of the day before and one, not on time,
\* of the first second of the day: only the second medication counts as taken
C13_Witness ==
    /\ page = "calendar"
    /\ cDate = At(2024, 3, 5, Clock(9, 0, 0))
    /\ Len(cLogs) = 2
    /\ cLogs[1].timestamp = At(2024, 3, 4, Clock(23, 59, 59))
    /\ cLogs[2].timestamp = At(2024, 3, 5, 0)
    /\ ~cLogs[2].isOnTime
    /\ ~isMedicationTaken(cLogs, cDate, IdOf(1))
    /\ isMedicationTaken(cLogs, cDate, IdOf(2))
    /\ getLogsForDate(cLogs, cDate) = <<cLogs[2]>>

\* This step shows the notice as the newest one
Shows(message) ==
    /\ Len(toasts') = Len(toasts) + 1
    /\ toasts'[Len(toasts')] = message

\* This step ends a fetchData call of the Calendar at its medications query
CalMedsFetchEnds ==
    /\ Len(cFetches') < Len(cFetches)
    /\ \A i \in 1..Len(cFetches) : cFetches[i].stage = "awaitMeds"

\* C19: when a fetch of Dashboard, Analytics or Calendar fails, the error
\* notice is shown and, with that step, the loading flag is false and the
\* loaded logs and the aggregates computed from them (adherence stats with
\* their most-missed list; weekly data and most-missed) are what they were.
C19_FailedFetchKeepsState ==
    [][/\ (dFetch' = "failed" /\ dFetch # "failed") => Shows("Failed to fetch dashboard data")
       /\ (aFetch' = "failed" /\ aFetch # "failed") => Shows("Failed to fetch analytics data")
       /\ CalMedsFetchEnds => Shows("Failed to fetch calendar data")
       /\ Shows("Failed to fetch dashboard data") =>
            /\ dIsLoading' = FALSE
            /\ UNCHANGED <<recentLogs, adherenceStats>>
       /\ Shows("Failed to fetch analytics data") =>
            /\ aIsLoading' = FALSE
            /\ UNCHANGED <<aLogs, weeklyData, mostMissed>>
       /\ Shows("Failed to fetch calendar data") =>
            /\ cIsLoading' = FALSE
            /\ UNCHANGED cLogs]_vars

\* A state where the Calendar shows February after the fetch for it failed:
\* the loaded logs are still those of March and loading has ended
C19_Witness ==
    /\ page = "calendar"
    /\ cDate = At(2024, 2, 29, 0)
    /\ cFetches = <<>>
    /\ toasts = <<"Failed to fetch calendar data">>
    /\ ~cIsLoading
    /\ Len(cLogs) > 0
    /\ \A k \in 1..Len(cLogs) : GetMonth(cLogs[k].timestamp) = 3

-----------------------------------------------------------------------------
(* The whole application from an empty dose_logs table, from 2024-03-05 on. *)

NextLogging ==
    \/ OpenLogging \/ LoggingMedsResult \/ LoggingLogsResult \/ SelectMedication
    \/ MarkAsTaken \/ LoggingInsertResult

NextApp == NextViews \/ NextLogging \/ Leave \/ Tick

InitApp ==
    /\ Unmounted
    /\ clock = At(2024, 3, 5, Clock(9, 0, 0))
    /\ medicationsTable = <<DailyMed(1, NameOf(1)), DailyMed(2, NameOf(2))>>
    /\ doseLogsTable = <<>>

SpecApp == InitApp /\ [][NextApp]_vars

\* C14: whatever doses were logged through Calendar's Take Now and
\* DoseLogging's Mark as Taken, the stored dose logs hold at most one log per
\* medication and local calendar day.
C14_AtMostOnePerDay ==
    \A j, k \in 1..Len(doseLogsTable) :
       (/\ doseLogsTable[j].medicationId = doseLogsTable[k].medicationId
        /\ doseLogsTable[j].timestamp \div 86400 = doseLogsTable[k].timestamp \div 86400)
       => j = k

\* C16: every dose log written through Calendar and DoseLogging carries
\* on-time flag true, so with only such logs in the store every adherence
\* rate over at least one log is 100 (overall on Dashboard and Analytics, and
\* for every day of the weekly data that has logs) and the most-missed lists
\* are empty.
C16_AlwaysOnTime ==
    /\ \A k \in 1..Len(doseLogsTable) : doseLogsTable[k].isOnTime = TRUE
    /\ DashboardLoaded =>
         /\ Len(recentLogs) > 0 => adherenceStats.adherenceRate = [num |-> 100, den |-> 1]
         /\ adherenceStats.mostMissed = <<>>
    /\ AnalyticsLoaded =>
         /\ Len(aLogs) > 0 => calculateOverallAdherence(aLogs) = 100
         /\ mostMissed = <<>>
         /\ \A i \in 1..Len(weeklyData) :
              weeklyData[i].total > 0 => weeklyData[i].adherenceRate = 100

\* A state where the Dashboard has computed the rate of three logs, of both
\* medications and of two days, that were written through the application
C16_Witness ==
    /\ DashboardLoaded
    /\ Len(recentLogs) = 3
    /\ \E j, k \in 1..3 :
         /\ recentLogs[j].medicationId # recentLogs[k].medicationId
         /\ recentLogs[j].timestamp # recentLogs[k].timestamp
    /\ adherenceStats.adherenceRate = [num |-> 100, den |-> 1]
    /\ adherenceStats.takenDoses = 3

\* The store keeps every row it has, unchanged and in place
LogsOnlyAdded ==
    /\ Len(doseLogsTable') >= Len(doseLogsTable)
    /\ \A k \in 1..Len(doseLogsTable) : doseLogsTable'[k] = doseLogsTable[k]

\* The recent-logs list without the log (which a fetch that ended after the
\* insert has listed already)
ListedBesides(log) == Filter(lRecentLogs, {k \in 1..Len(lRecentLogs) : lRecentLogs[k] # log})

\* C17: a Mark-as-Taken action with a medication selected whose insert
\* succeeds stores exactly one new log, of the selected medication and
\* timestamped now, and when it completes that log is put in front of the
\* recent-logs list and the selection is cleared; without a selection
\* nothing is stored; and no step of the application changes or removes a
\* stored dose log.
C17_MarkAsTakenAddsOneLog ==
    [][/\ (page = "logging" /\ Len(lInserts') > Len(lInserts)) =>
            /\ selectedMedicationId # <<>>
            /\ LET call == lInserts'[Len(lInserts')]
               IN  IF call.data = <<>> THEN doseLogsTable' = doseLogsTable
                   ELSE /\ doseLogsTable' = Append(doseLogsTable, call.data[1])
                        /\ call.data[1].medicationId = selectedMedicationId
                        /\ call.data[1].timestamp = clock
       /\ (page = "logging" /\ Shows("Dose logged successfully!")) =>
            /\ \E i \in 1..Len(lInserts) :
                 /\ lInserts[i].data # <<>>
                 /\ lRecentLogs' = <<lInserts[i].data[1]>> \o ListedBesides(lInserts[i].data[1])
            /\ selectedMedicationId' = <<>>
       /\ (page = "logging" /\ selectedMedicationId = <<>>) => doseLogsTable' = doseLogsTable
       /\ LogsOnlyAdded]_vars

-----------------------------------------------------------------------------
(* Calendar.handleLogDose called for any loaded medication, around 2024-03-05. *)

\* handleLogDose(medicationId) is called
CalHandlerCalled ==
    /\ page = "calendar"
    /\ \E i \in 1..Len(cMedications) : CalHandleLogDose(cMedications[i].id)

NextHandlers ==
    \/ OpenCalendar \/ SelectDate \/ CalMedsResult \/ CalLogsResult
    \/ CalHandlerCalled \/ CalInsertResult

SpecHandlers == InitCalendar /\ [][NextHandlers]_vars

\* A loaded log of the medication is on the selected date's calendar day
TakenOnSelectedDay(medicationId) ==
    \E k \in LoadedOnSelectedDay : cLogs[k].medicationId = medicationId

\* C15: a call of handleLogDose for a medication that is already logged on
\* the selected date inserts nothing and leaves the logs state as it is: no
\* call goes on to the insert, and no row is stored, for such a medication,
\* and the step that shows the notice "already logged" changes neither the
\* store nor the logs state nor the calls in flight.
C15_AlreadyLoggedIsNoOp ==
    [][/\ Len(cInserts') > Len(cInserts) =>
            ~TakenOnSelectedDay(cInserts'[Len(cInserts')].medicationId)
       /\ Len(doseLogsTable') > Len(doseLogsTable) =>
            ~TakenOnSelectedDay(doseLogsTable'[Len(doseLogsTable')].medicationId)
       /\ Shows("You've already logged this medication today") =>
            /\ \E i \in 1..Len(cMedications) : TakenOnSelectedDay(cMedications[i].id)
            /\ UNCHANGED <<storeVars, cLogs, cInserts>>]_vars

\* A state after such a call: the first medication has a log on the selected
\* day, the notice is the newest one, and nothing was stored or is in flight
C15_Witness ==
    /\ page = "calendar"
    /\ TakenOnSelectedDay(IdOf(1))
    /\ ~TakenOnSelectedDay(IdOf(2))
    /\ Len(toasts) > 0
    /\ toasts[Len(toasts)] = "You've already logged this medication today"
    /\ cInserts = <<>>
    /\ Len(doseLogsTable) = Len(cLogs)

-----------------------------------------------------------------------------
(* The AddMedication form on 2024-03-05. *)

NextForm ==
    \/ OpenAddMedication \/ OnFrequencyChange \/ SetTimeInput \/ AddTime \/ RemoveTime
    \/ Submit \/ SubmitResult \/ Leave

InitForm ==
    /\ Unmounted
    /\ clock = At(2024, 3, 5, Clock(9, 0, 0))
    /\ medicationsTable = <<>>
    /\ doseLogsTable = <<>>

SpecForm == InitForm /\ [][NextForm]_vars

\* C20: whatever frequency changes, addTime and removeTime calls came
\* before, a submit stores a medication only with the form's time list, and
\* only when that list is not empty, so that no stored medication has an
\* empty list; a submit with an empty list shows the error, changes
\* neither the store nor the page, and starts no insert.
C20_SubmitNeedsTimes ==
    [][/\ Len(medicationsTable') > Len(medicationsTable) =>
            /\ Len(fTimes) > 0
            /\ medicationsTable'[Len(medicationsTable')].times = fTimes
       /\ \A i \in 1..Len(medicationsTable') : Len(medicationsTable'[i].times) > 0
       /\ Shows("Please add at least one time for your medication") =>
            /\ Len(fTimes) = 0
            /\ UNCHANGED <<storeVars, page, fSubmits>>
       /\ (page = "addMedication" /\ Len(fTimes) = 0) =>
            /\ UNCHANGED storeVars
            /\ Len(fSubmits') <= Len(fSubmits)]_vars

\* A state after a submit with an empty list was refused and, with 20:00
\* left of the twice-daily defaults by removeTime, a second one stored the
\* medication and navigated to the medication list
C20_Witness ==
    /\ page = "medications"
    /\ toasts = <<"Please add at least one time for your medication",
                  "Medication added successfully!">>
    /\ Len(medicationsTable) = 1
    /\ medicationsTable[1].times = <<T2000>>
    /\ fFrequency = "twice_daily"

-----------------------------------------------------------------------------
(* Overlapping Take Now clicks of the Calendar, in the whole application. *)

\* This step is handleLogDose of the Calendar resuming after an insert that
\* succeeded, with today selected
CalTodayLogged ==
    /\ page = "calendar"
    /\ isSameDay(cDate, clock)
    /\ Shows("Dose logged successfully!")

\* C21: with today selected in the Calendar, when handleLogDose completes
\* after a successful insert, the medication it logged counts as taken and
\* every medication that counted as taken before still does: no update of
\* the logs state by a call for another medication is lost.
C21_NoLostLogUpdate ==
    [][CalTodayLogged =>
         /\ \E i \in 1..Len(cInserts) :
              /\ cInserts[i].data # <<>>
              /\ isMedicationTaken(cLogs', cDate, cInserts[i].medicationId)
         /\ \A m \in 1..Len(medicationsTable) :
              isMedicationTaken(cLogs, cDate, medicationsTable[m].id)
              => isMedicationTaken(cLogs', cDate, medicationsTable[m].id)]_vars

\* An insert of the Calendar for the medication that stored a log today has
\* not returned yet
InsertedTodayInFlight(medicationId) ==
    \E i \in 1..Len(cInserts) :
       /\ cInserts[i].medicationId = medicationId
       /\ cInserts[i].data # <<>>
       /\ isSameDay(cInserts[i].data[1].timestamp, clock)

\* C22: with today selected in the Calendar, a Take Now for a medication
\* issued while an earlier insert for the same medication, which stored a
\* log today, has not completed stores no second log for it.
C22_OverlappingTakeNowStoresOne ==
    [][(/\ page = "calendar"
        /\ isSameDay(cDate, clock)
        /\ Len(cInserts') > Len(cInserts)
        /\ InsertedTodayInFlight(cInserts'[Len(cInserts')].medicationId))
       => doseLogsTable' = doseLogsTable]_vars

\* C23: a dose log stored through the Calendar's Take Now carries a timestamp
\* on the local calendar day of the date selected at the click, and when the
\* call completes with that day still selected the medication counts as
\* taken for it, so that a further Take Now for it is rejected.
C23_LogIsOnSelectedDay ==
    [][/\ (page = "calendar" /\ Len(cInserts') > Len(cInserts)) =>
            LET call == cInserts'[Len(cInserts')]
            IN  call.data # <<>> => isSameDay(call.data[1].timestamp, cDate)
       /\ (page = "calendar" /\ Shows("Dose logged successfully!")) =>
            \E i \in 1..Len(cInserts) :
               /\ cInserts[i].data # <<>>
               /\ isSameDay(cInserts[i].data[1].timestamp, cDate)
                  => isMedicationTaken(cLogs', cDate, cInserts[i].medicationId)]_vars

-----------------------------------------------------------------------------
(* Analytics when the medications query may return no row: dose_logs is read
   by user_id alone, and the medication_id of a row need not be the id of a
   medication that the medications query returns. *)

InitAnyMeds ==
    /\ Unmounted
    /\ clock = At(2024, 3, 5, Clock(9, 0, 0))
    /\ medicationsTable \in {<<>>, <<DailyMed(1, NameOf(1))>>}
    /\ \E n \in 0..MaxWeekLogs :
         \E stamps \in [1..n -> WeekTimestamps], flags \in [1..n -> BOOLEAN] :
            doseLogsTable =
                LogRows(n, [i \in 1..n |-> [medicationId |-> IdOf(1), timestamp |-> stamps[i],
                                            isOnTime |-> flags[i]]])

SpecAnyMeds == InitAnyMeds /\ [][NextAnalytics]_vars

\* C24: once Analytics has loaded, the displayed weekly data is the per-day
\* aggregation of the loaded logs over the seven days from currentWeekStart:
\* the i-th entry is labelled with the i-th day of that week and counts the
\* loaded logs of that day and those of them that are on time.
C24_WeeklyDataOfShownWeek ==
    AnalyticsLoaded =>
        /\ Len(weeklyData) = 7
        /\ \A i \in 1..Len(weeklyData) :
             LET d     == currentWeekStart \div SecondsPerDay + (i - 1)
                 onDay == LogsOnDay(d)
             IN  /\ IsLabelOfDay(weeklyData[i].date, d)
                 /\ weeklyData[i].total = Cardinality(onDay)
                 /\ weeklyData[i].taken = Cardinality({k \in onDay : aLogs[k].isOnTime = TRUE})

-----------------------------------------------------------------------------
(* The Next button of Analytics, in the weeks around 2024-03-05. *)

\* C25: whenever the week displayed by Analytics is earlier than the current
\* calendar week, the Next button is not disabled, so that as many presses of
\* Next as of Previous bring the window back to the current week.
C25_NextEnabledWhenBehind ==
    (WeekButtonsShown /\ currentWeekStart < SundayOf(clock))
    => ~NextDisabled(currentWeekStart, clock)

-----------------------------------------------------------------------------
(* The fetches of the Calendar when the selected date changes. *)

\* The instants t and u are in the same calendar month of the same year
SameYearAndMonth(t, u) ==
    /\ CivilFromDays(t \div 86400).year = CivilFromDays(u \div 86400).year
    /\ CivilFromDays(t \div 86400).month = CivilFromDays(u \div 86400).month

\* C26: every change of the Calendar's selected date to a date in another
\* calendar month, the same month number of another year included, starts a
\* fetch for the newly selected date.
C26_OtherMonthRefetches ==
    [][(page = "calendar" /\ page' = "calendar" /\ ~SameYearAndMonth(cDate, cDate')) =>
         /\ Len(cFetches') = Len(cFetches) + 1
         /\ cFetches'[Len(cFetches')].date = cDate'
         /\ cIsLoading']_vars

\* No fetch of the Calendar has failed since it was opened
NoCalFetchFailed == \A k \in 1..Len(toasts) : toasts[k] # "Failed to fetch calendar data"

\* C27: when the Calendar's selected month number changed while a fetch was
\* in flight (so that a fetch for the selected month was started after it)
\* and no fetch failed, the step in which the last fetch in flight completes
\* leaves as loaded logs those that the query for the selected month returns,
\* whatever the order of the responses.
C27_LastSelectedMonthWins ==
    [][(/\ page = "calendar"
        /\ NoCalFetchFailed
        /\ Len(cFetches) = 1 /\ cFetches' = <<>> /\ toasts' = toasts
        /\ GetMonth(cFetches[1].date) # GetMonth(cDate))
       => cLogs' = SelectLogsBetween(doseLogsTable, MonthStart(cDate), MonthEnd(cDate))]_vars

\* C28: when a fetch of the Calendar completes, the loaded logs contain every
\* stored log whose timestamp is on a local calendar day of the month of the
\* date it was started for, the whole of the month's last day included.
C28_WholeMonthLoaded ==
    [][(page = "calendar" /\ Len(cFetches') < Len(cFetches) /\ toasts' = toasts) =>
         \E i \in 1..Len(cFetches) :
            /\ cFetches[i].stage = "awaitLogs"
            /\ cFetches' = RemoveAt(cFetches, i)
            /\ \A k \in 1..Len(doseLogsTable) :
                 SameYearAndMonth(doseLogsTable[k].timestamp, cFetches[i].date)
                 => \E j \in 1..Len(cLogs') : cLogs'[j] = doseLogsTable[k]]_vars

-----------------------------------------------------------------------------
(* The most-missed lists of Dashboard and Analytics over the same collections. *)

\* C29: for the same medications and logs, the Dashboard's most-missed list
\* is the first three entries of the most-missed list of Analytics, names and
\* counts included.
C29_DashboardListIsAnalyticsPrefix ==
    /\ DashboardLoaded =>
         adherenceStats.mostMissed = Slice(MostMissed(recentLogs, dMedications), DashboardTopN)
    /\ AnalyticsLoaded =>
         DashMostMissed(aMedications, aLogs) = Slice(mostMissed, DashboardTopN)

-----------------------------------------------------------------------------
(* The frequency and the time list of the AddMedication form. *)

\* How many times a day a frequency other than custom stands for
CanonicalCount(frequency) ==
    CASE frequency = "once_daily"        -> 1
      [] frequency = "twice_daily"       -> 2
      [] frequency = "three_times_daily" -> 3
      [] frequency = "four_times_daily"  -> 4

\* The time lists that are the defaults of a frequency
DefaultLists == {DefaultTimes(f) : f \in Frequencies \ {"custom"}}

\* C30: a change of the frequency to a value other than custom replaces the
\* time list with that frequency's defaults, as many as its canonical count
\* (1, 2, 3, 4); a change to custom leaves the time list as it is; and the
\* steps of addTime (the typed time is appended) and of removeTime (the list
\* gets shorter and is no frequency's defaults) leave the frequency as it is.
C30_FrequencySetsDefaults ==
    [][(page = "addMedication" /\ page' = "addMedication") =>
         /\ (fFrequency' # fFrequency /\ fFrequency' # "custom") =>
              /\ fTimes' = DefaultTimes(fFrequency')
              /\ Len(fTimes') = CanonicalCount(fFrequency')
              /\ \A i, j \in 1..Len(fTimes') : i # j => fTimes'[i] # fTimes'[j]
         /\ (fFrequency' # fFrequency /\ fFrequency' = "custom") => fTimes' = fTimes
         /\ (fTimeInput # <<>> /\ fTimes' = Append(fTimes, fTimeInput)) => fFrequency' = fFrequency
         /\ (Len(fTimes') < Len(fTimes) /\ fTimes' \notin DefaultLists) =>
              fFrequency' = fFrequency]_vars

\* A state where the frequency is custom and the time list is the three
\* defaults that a change to three times daily had set, kept by the change
\* to custom, and a 07:30 that addTime has appended
C30_Witness ==
    /\ page = "addMedication"
    /\ fFrequency = "custom"
    /\ fTimes = <<T0800, T1400, T2000, T0730>>

====
